---- MODULE Spec2Model ----
(***************************************************************************)
(* The bidirectional chart parser of ladle-core                            *)
(* (src/src/parsers/experimental/algorithm.rs): State::new, add_node,      *)
(* done, run_till_done, run_cycle, check_node, check_right, check_left     *)
(* and make_rule_map, as a state machine.                                  *)
(*                                                                         *)
(* Handles (NodeIdx, RuleIdx, TableIdx) and Check.pos are 0-based as in    *)
(* the source; TLA+ sequences are 1-based, so get_node(ns, i) = ns[i+1].   *)
(* A Node is a record of one shape: the NodeMeta enum is the field kind,   *)
(* and the fields of the other variant hold 0 / <<>> and are never read.   *)
(*                                                                         *)
(* Two pure collaborators are modelled beside it, each under its own       *)
(* specification: the line/column lookup of Input (src/src/text/mod.rs,    *)
(* SpecText) and CFG::from (src/src/parsers/mod.rs, SpecCFG).              *)
(***************************************************************************)
EXTENDS Integers, Sequences, FiniteSets, TLC

VARIABLES
    tokens,       \* the token vector handed to State::new (kept for reference)
    rules,        \* State.rules
    rule_map,     \* State.rule_map
    table,        \* State.table: 0..N -> TableEntry
    nodes,        \* State.nodes (the arena)
    node_queue,   \* State.node_queue
    check_queue,  \* State.check_queue
    new_nodes,    \* the local new_nodes of the running run_cycle
    pc,           \* where run_till_done is: "idle", "cycle" or "returned"
    cycles,       \* number of run_cycle calls completed so far
    discipline,   \* how queues are popped and table lists scanned
    text,          \* Input.text, a sequence of characters
    newline_table, \* Input.newline_table
    text_index,    \* the argument of the last lookup on the Input
    line_num,      \* what Input::get_line_num returned, or NoResult
    position,      \* what Input::get_pos returned, or NoResult
    productions,   \* the argument of CFG::from
    cfg,           \* what CFG::from returned, or NoResult
    lr,            \* the LRParser (its fields), or NoResult before LRParser::new
    lr_panicked,   \* whether a call on the LRParser has panicked
    lr_output,     \* what LRParser::to_output returned, or NoResult
    lr_steps       \* number of execute_step calls so far

\* The variables of the parser engine, and those of the collaborators.
engine == <<tokens, rules, rule_map, table, nodes, node_queue, check_queue,
            new_nodes, pc, cycles, discipline>>

aux == <<text, newline_table, text_index, line_num, position, productions, cfg,
         lr, lr_panicked, lr_output, lr_steps>>

vars == <<engine, aux>>

(***************************************************************************)
(* Bounds of the model.                                                    *)
(***************************************************************************)
MaxTokens == 2   \* longest token vector of the enumerated inputs
MaxRules  == 1   \* most rules in an enumerated grammar
MaxCtx    == 1   \* most context symbols (predecessors + successors) of a rule
MaxNodes  == 6   \* arena capacity: run_cycle does not add beyond it

Symbols == {"a", "b"}

SeqsUpTo(S, n) == UNION {[1..k -> S] : k \in 0..n}

Reverse(s) == [k \in 1..Len(s) |-> s[Len(s) + 1 - k]]

Last(s) == s[Len(s)]

Front(s) == SubSeq(s, 1, Len(s) - 1)

(***************************************************************************)
(* MidRule (src/src/parser/grammars.rs).                                   *)
(***************************************************************************)
MidRule(result, variant, base, predecessors, successors) ==
    [result |-> result, variant |-> variant, base |-> base,
     predecessors |-> predecessors, successors |-> successors]

MidRules ==
    {MidRule(r, 0, b, p, s) :
        r \in Symbols, b \in Symbols,
        <<p, s>> \in {ps \in SeqsUpTo(Symbols, MaxCtx) \X SeqsUpTo(Symbols, MaxCtx) :
                          Len(ps[1]) + Len(ps[2]) <= MaxCtx}}

Grammars == SeqsUpTo(MidRules, MaxRules)

TokenVectors == SeqsUpTo(Symbols, MaxTokens)

(***************************************************************************)
(* The scenarios of the specification, section 8, as inputs.               *)
(***************************************************************************)
ScenarioA == <<(<<MidRule("S", 0, "a", <<>>, <<>>)>>), (<<"a">>)>>

ScenarioB == <<(<<MidRule("S", 0, "a", <<>>, <<"b", "c">>)>>), (<<"a", "b", "c">>)>>

ScenarioC == <<(<<MidRule("S", 0, "c", <<"b", "a">>, <<>>)>>), (<<"a", "b", "c">>)>>

ScenarioD == <<(<<MidRule("S", 0, "m", <<"l">>, <<"r">>)>>), (<<"l", "m", "r">>)>>

ScenarioE ==
    <<(<<MidRule("S", 0, "a", <<>>, <<"a">>), MidRule("S", 1, "a", <<>>, <<>>)>>),
      (<<"a", "a">>)>>

ScenarioF == <<(<<MidRule("S", 0, "a", <<>>, <<"b">>)>>), (<<"a", "c">>)>>

\* A non-terminal as the base of a second rule, with a terminal successor.
ScenarioChain ==
    <<(<<MidRule("A", 0, "a", <<>>, <<>>), MidRule("S", 0, "A", <<>>, <<"b">>)>>),
      (<<"a", "b">>)>>

\* A non-terminal as the successor of a terminal base.
ScenarioLate ==
    <<(<<MidRule("B", 0, "b", <<>>, <<>>), MidRule("S", 0, "a", <<>>, <<"B">>)>>),
      (<<"a", "b">>)>>

\* Two rules anchored at different tokens.
ScenarioTwo ==
    <<(<<MidRule("S", 0, "a", <<>>, <<>>), MidRule("T", 0, "b", <<>>, <<>>)>>),
      (<<"a", "b">>)>>

\* A rule whose predecessor and successor carry the same label, on an input
\* that has that label after the base only.
ScenarioWrap == <<(<<MidRule("S", 0, "m", <<"r">>, <<"r">>)>>), (<<"m", "r">>)>>

\* A rule with two predecessors and one successor whose labels are all that of
\* the token after the base.
ScenarioDrift ==
    <<(<<MidRule("S", 0, "m", <<"r", "r">>, <<"r">>)>>), (<<"m", "r">>)>>

Scenarios ==
    {ScenarioA, ScenarioB, ScenarioC, ScenarioD, ScenarioE, ScenarioF,
     ScenarioChain, ScenarioLate, ScenarioTwo, ScenarioWrap, ScenarioDrift}

Inputs == (Grammars \X TokenVectors) \cup Scenarios

(***************************************************************************)
(* Node, TableEntry, Check.                                                *)
(***************************************************************************)
\* TerminalNode with the stop of the token left at its start.
TerminalNode_stop_at_start(label, i) ==
    [label |-> label, start |-> i, stop |-> i,
     kind |-> "Terminal", token_idx |-> i, rule |-> 0, children |-> <<>>]

TerminalNode(label, i) ==
    [label |-> label, start |-> i, stop |-> i + 1,
     kind |-> "Terminal", token_idx |-> i, rule |-> 0, children |-> <<>>]

\* Node::new_non_terminal with its two positions exchanged.
new_non_terminal_swapped(label, start, stop, rule, children) ==
    [label |-> label, start |-> stop, stop |-> start,
     kind |-> "NonTerminal", token_idx |-> 0, rule |-> rule, children |-> children]

new_non_terminal(label, start, stop, rule, children) ==
    [label |-> label, start |-> start, stop |-> stop,
     kind |-> "NonTerminal", token_idx |-> 0, rule |-> rule, children |-> children]

TableEntry_new == [started |-> <<>>, terminated |-> <<>>]

Check(rule_idx, stage, pos, leftmost, rightmost, base, right_nodes, left_nodes) ==
    [rule_idx |-> rule_idx, stage |-> stage, pos |-> pos,
     leftmost |-> leftmost, rightmost |-> rightmost,
     base |-> base, right_nodes |-> right_nodes, left_nodes |-> left_nodes]

get_node(ns, idx) == ns[idx + 1]

get_rule(rs, idx) == rs[idx + 1]

get_table_entry(tb, idx) == tb[idx]

(***************************************************************************)
(* make_rule_map: for each rule in order, push its index on the vector of  *)
(* its base, inserting the vector at the first rule of that base.          *)
(***************************************************************************)
RECURSIVE make_rule_map_from(_, _, _)
make_rule_map_from(source, i, map) ==
    IF i >= Len(source) THEN map
    ELSE LET b == source[i + 1].base
         IN  make_rule_map_from(source, i + 1,
                 IF b \in DOMAIN map
                     THEN [map EXCEPT ![b] = Append(@, i)]
                     ELSE [k \in DOMAIN map \cup {b} |->
                              IF k = b THEN <<i>> ELSE map[k]])

\* make_rule_map inserting a fresh one-element vector for every rule, so that
\* the last rule of a base replaces the earlier ones.
make_rule_map_overwriting(source) ==
    LET bases == {source[k].base : k \in 1..Len(source)}
        last(b) == CHOOSE i \in 0..(Len(source) - 1) :
                       /\ source[i + 1].base = b
                       /\ \A j \in 0..(Len(source) - 1) : source[j + 1].base = b => j <= i
    IN  [b \in bases |-> <<last(b)>>]

make_rule_map(source) == make_rule_map_from(source, 0, [k \in {} |-> <<>>])

\* add_node without the push on terminated.
add_node_started_only(ns, tb, node) ==
    LET node_idx == Len(ns)
    IN  [nodes |-> Append(ns, node),
         table |-> [tb EXCEPT ![node.start].started = Append(@, node_idx)],
         idx   |-> node_idx]

\* add_node putting the handle at the front of the started list.
add_node_at_front(ns, tb, node) ==
    LET node_idx == Len(ns)
    IN  [nodes |-> Append(ns, node),
         table |-> [tb EXCEPT ![node.start].started = <<node_idx>> \o @,
                               ![node.stop].terminated = Append(@, node_idx)],
         idx   |-> node_idx]

(***************************************************************************)
(* add_node: the handle is the arena length; the handle is appended to     *)
(* started of the node's start and terminated of its stop, and the node    *)
(* is pushed.  The result holds the new arena, the new table, the handle.  *)
(***************************************************************************)
add_node(ns, tb, node) ==
    LET node_idx == Len(ns)
    IN  [nodes |-> Append(ns, node),
         table |-> [tb EXCEPT ![node.start].started = Append(@, node_idx),
                               ![node.stop].terminated = Append(@, node_idx)],
         idx   |-> node_idx]

(***************************************************************************)
(* State::new: a table of tokens.len() + 1 entries, then for each token i  *)
(* add_node of its terminal and push_back of the handle on node_queue.     *)
(***************************************************************************)
RECURSIVE State_new_loop(_, _, _)
State_new_loop(toks, i, st) ==
    IF i >= Len(toks) THEN st
    ELSE LET r == add_node(st.nodes, st.table, TerminalNode(toks[i + 1], i))
         IN  State_new_loop(toks, i + 1,
                 [nodes |-> r.nodes, table |-> r.table,
                  node_queue |-> Append(st.node_queue, r.idx)])

State_new(rs, toks) ==
    LET st == State_new_loop(toks, 0,
                  [nodes |-> <<>>,
                   table |-> [p \in 0..Len(toks) |-> TableEntry_new],
                   node_queue |-> <<>>])
    IN  [rules |-> rs, rule_map |-> make_rule_map(rs),
         table |-> st.table, nodes |-> st.nodes,
         node_queue |-> st.node_queue, check_queue |-> <<>>]

\* done with the test inverted.
done_inverted(nq, cq) == nq # <<>>

\* done looking at the check-queue instead of the node-queue.
done_check_queue(nq, cq) == cq = <<>>

done(nq, cq) == nq = <<>>

(***************************************************************************)
(* The order in which a queue is popped and a table list is scanned.  The  *)
(* source pops with pop_front and iterates the cloned list front to back   *)
(* (SourceDiscipline); the other values are the alternative disciplines    *)
(* the specification speaks of (section 4.3, section 5).                   *)
(***************************************************************************)
SourceDiscipline == [nq |-> "FIFO", cq |-> "FIFO", scan |-> "forward"]

Disciplines == [nq : {"FIFO", "LIFO"}, cq : {"FIFO", "LIFO"}, scan : {"forward", "reverse"}]

PopItem(q, how) == IF how = "FIFO" THEN Head(q) ELSE Last(q)

PopRest(q, how) == IF how = "FIFO" THEN Tail(q) ELSE Front(q)

Scan(list, how) == IF how = "forward" THEN list ELSE Reverse(list)

\* check_node taking a label without an entry in the rule map for a node to
\* pass on: it pushes a copy of the node over its own span.
check_node_echo(node_idx, ns, rs, rmap) ==
    LET base_node == get_node(ns, node_idx)
    IN  [new |-> IF base_node.label \in DOMAIN rmap THEN <<>>
                 ELSE <<new_non_terminal(base_node.label, base_node.start,
                                         base_node.stop, 0, <<node_idx>>)>>,
         checks |-> <<>>]

\* check_node pushing the node of a context-free rule twice.
check_node_twice(node_idx, ns, rs, rmap) ==
    LET base_node == get_node(ns, node_idx)
        rule_indices == IF base_node.label \in DOMAIN rmap
                            THEN rmap[base_node.label] ELSE <<>>
        immediate(r) == /\ get_rule(rs, r).successors = <<>>
                        /\ get_rule(rs, r).predecessors = <<>>
        now   == SelectSeq(rule_indices, immediate)
        later == SelectSeq(rule_indices, LAMBDA r : ~immediate(r))
        made  == [k \in 1..Len(now) |->
                     new_non_terminal(get_rule(rs, now[k]).result, base_node.start,
                                      base_node.stop, now[k], <<node_idx>>)]
    IN  [new |-> made \o made,
         checks |-> [k \in 1..Len(later) |->
                     Check(later[k],
                           IF get_rule(rs, later[k]).successors = <<>>
                               THEN "Left" ELSE "Right",
                           0, base_node.start, base_node.stop, node_idx, <<>>, <<>>)]]

\* check_node starting every Check with rightmost at the start of the base.
check_node_rightmost_at_start(node_idx, ns, rs, rmap) ==
    LET base_node == get_node(ns, node_idx)
        rule_indices == IF base_node.label \in DOMAIN rmap
                            THEN rmap[base_node.label] ELSE <<>>
        immediate(r) == /\ get_rule(rs, r).successors = <<>>
                        /\ get_rule(rs, r).predecessors = <<>>
        now   == SelectSeq(rule_indices, immediate)
        later == SelectSeq(rule_indices, LAMBDA r : ~immediate(r))
    IN  [new |-> [k \in 1..Len(now) |->
                     new_non_terminal(get_rule(rs, now[k]).result, base_node.start,
                                      base_node.stop, now[k], <<node_idx>>)],
         checks |-> [k \in 1..Len(later) |->
                     Check(later[k],
                           IF get_rule(rs, later[k]).successors = <<>>
                               THEN "Left" ELSE "Right",
                           0, base_node.start, base_node.start, node_idx, <<>>, <<>>)]]

\* check_node naming as child the handle the arena will hand out next.
check_node_child_is_next(node_idx, ns, rs, rmap) ==
    LET base_node == get_node(ns, node_idx)
        rule_indices == IF base_node.label \in DOMAIN rmap
                            THEN rmap[base_node.label] ELSE <<>>
        immediate(r) == /\ get_rule(rs, r).successors = <<>>
                        /\ get_rule(rs, r).predecessors = <<>>
        now   == SelectSeq(rule_indices, immediate)
        later == SelectSeq(rule_indices, LAMBDA r : ~immediate(r))
    IN  [new |-> [k \in 1..Len(now) |->
                     new_non_terminal(get_rule(rs, now[k]).result, base_node.start,
                                      base_node.stop, now[k], <<Len(ns)>>)],
         checks |-> [k \in 1..Len(later) |->
                     Check(later[k],
                           IF get_rule(rs, later[k]).successors = <<>>
                               THEN "Left" ELSE "Right",
                           0, base_node.start, base_node.stop, node_idx, <<>>, <<>>)]]

\* check_node passing over the rules whose variant is not 0.
check_node_reads_variant(node_idx, ns, rs, rmap) ==
    LET base_node == get_node(ns, node_idx)
        all_indices == IF base_node.label \in DOMAIN rmap
                           THEN rmap[base_node.label] ELSE <<>>
        rule_indices == SelectSeq(all_indices, LAMBDA r : get_rule(rs, r).variant = 0)
        immediate(r) == /\ get_rule(rs, r).successors = <<>>
                        /\ get_rule(rs, r).predecessors = <<>>
        now   == SelectSeq(rule_indices, immediate)
        later == SelectSeq(rule_indices, LAMBDA r : ~immediate(r))
    IN  [new |-> [k \in 1..Len(now) |->
                     new_non_terminal(get_rule(rs, now[k]).result, base_node.start,
                                      base_node.stop, now[k], <<node_idx>>)],
         checks |-> [k \in 1..Len(later) |->
                     Check(later[k],
                           IF get_rule(rs, later[k]).successors = <<>>
                               THEN "Left" ELSE "Right",
                           0, base_node.start, base_node.stop, node_idx, <<>>, <<>>)]]

\* check_node choosing the stage the other way round.
check_node_stage_inverted(node_idx, ns, rs, rmap) ==
    LET base_node == get_node(ns, node_idx)
        rule_indices == IF base_node.label \in DOMAIN rmap
                            THEN rmap[base_node.label] ELSE <<>>
        immediate(r) == /\ get_rule(rs, r).successors = <<>>
                        /\ get_rule(rs, r).predecessors = <<>>
        now   == SelectSeq(rule_indices, immediate)
        later == SelectSeq(rule_indices, LAMBDA r : ~immediate(r))
    IN  [new |-> [k \in 1..Len(now) |->
                     new_non_terminal(get_rule(rs, now[k]).result, base_node.start,
                                      base_node.stop, now[k], <<node_idx>>)],
         checks |-> [k \in 1..Len(later) |->
                     Check(later[k],
                           IF get_rule(rs, later[k]).successors = <<>>
                               THEN "Right" ELSE "Left",
                           0, base_node.start, base_node.stop, node_idx, <<>>, <<>>)]]

(***************************************************************************)
(* check_node: what it pushes on check_queue and on new_nodes, in order.   *)
(***************************************************************************)
check_node(node_idx, ns, rs, rmap) ==
    LET base_node == get_node(ns, node_idx)
        leftmost  == base_node.start
        rightmost == base_node.stop
        rule_indices == IF base_node.label \in DOMAIN rmap
                            THEN rmap[base_node.label] ELSE <<>>
        immediate(r) == /\ get_rule(rs, r).successors = <<>>
                        /\ get_rule(rs, r).predecessors = <<>>
        now   == SelectSeq(rule_indices, immediate)
        later == SelectSeq(rule_indices, LAMBDA r : ~immediate(r))
    IN  [new |-> [k \in 1..Len(now) |->
                     new_non_terminal(get_rule(rs, now[k]).result, leftmost, rightmost,
                                      now[k], <<node_idx>>)],
         checks |-> [k \in 1..Len(later) |->
                     Check(later[k],
                           IF get_rule(rs, later[k]).successors = <<>>
                               THEN "Left" ELSE "Right",
                           0, leftmost, rightmost, node_idx, <<>>, <<>>)]]

\* check_right taking every node that starts at rightmost, whatever its label.
check_right_any_label(check, ns, tb, rs, how) ==
    LET rule == get_rule(rs, check.rule_idx)
        rule_suc_len  == Len(rule.successors)
        rule_pred_len == Len(rule.predecessors)
        result   == rule.result
        matches  == Scan(get_table_entry(tb, check.rightmost).started, how)
        new_check(s) == [check EXCEPT !.rightmost = get_node(ns, s).stop,
                                      !.right_nodes = Append(@, s)]
    IN  IF check.pos + 1 = rule_suc_len
        THEN IF rule_pred_len = 0
             THEN [new |-> [k \in 1..Len(matches) |->
                               new_non_terminal(result, check.leftmost, check.rightmost,
                                                check.rule_idx, check.right_nodes)],
                   checks |-> <<>>]
             ELSE [new |-> <<>>,
                   checks |-> [k \in 1..Len(matches) |->
                               [new_check(matches[k]) EXCEPT !.stage = "Left", !.pos = 0]]]
        ELSE [new |-> <<>>,
              checks |-> [k \in 1..Len(matches) |->
                          [new_check(matches[k]) EXCEPT !.pos = @ + 1]]]

\* check_right reading the list of nodes that end at rightmost.
check_right_scans_terminated(check, ns, tb, rs, how) ==
    LET rule == get_rule(rs, check.rule_idx)
        rule_suc_len  == Len(rule.successors)
        rule_pred_len == Len(rule.predecessors)
        result   == rule.result
        expected == rule.successors[check.pos + 1]
        matches  == SelectSeq(Scan(get_table_entry(tb, check.rightmost).terminated, how),
                              LAMBDA s : get_node(ns, s).label = expected)
        new_check(s) == [check EXCEPT !.rightmost = get_node(ns, s).stop,
                                      !.right_nodes = Append(@, s)]
    IN  IF check.pos + 1 = rule_suc_len
        THEN IF rule_pred_len = 0
             THEN [new |-> [k \in 1..Len(matches) |->
                               new_non_terminal(result, check.leftmost, check.rightmost,
                                                check.rule_idx, check.right_nodes)],
                   checks |-> <<>>]
             ELSE [new |-> <<>>,
                   checks |-> [k \in 1..Len(matches) |->
                               [new_check(matches[k]) EXCEPT !.stage = "Left", !.pos = 0]]]
        ELSE [new |-> <<>>,
              checks |-> [k \in 1..Len(matches) |->
                          [new_check(matches[k]) EXCEPT !.pos = @ + 1]]]

\* check_right leaving rightmost of the continuation where it was.
check_right_rightmost_kept(check, ns, tb, rs, how) ==
    LET rule == get_rule(rs, check.rule_idx)
        rule_suc_len  == Len(rule.successors)
        rule_pred_len == Len(rule.predecessors)
        result   == rule.result
        expected == rule.successors[check.pos + 1]
        matches  == SelectSeq(Scan(get_table_entry(tb, check.rightmost).started, how),
                              LAMBDA s : get_node(ns, s).label = expected)
        new_check(s) == [check EXCEPT !.right_nodes = Append(@, s)]
    IN  IF check.pos + 1 = rule_suc_len
        THEN IF rule_pred_len = 0
             THEN [new |-> [k \in 1..Len(matches) |->
                               new_non_terminal(result, check.leftmost, check.rightmost,
                                                check.rule_idx, check.right_nodes)],
                   checks |-> <<>>]
             ELSE [new |-> <<>>,
                   checks |-> [k \in 1..Len(matches) |->
                               [new_check(matches[k]) EXCEPT !.stage = "Left", !.pos = 0]]]
        ELSE [new |-> <<>>,
              checks |-> [k \in 1..Len(matches) |->
                          [new_check(matches[k]) EXCEPT !.pos = @ + 1]]]

\* check_right forgetting to record the matched node in the continuation.
check_right_drops_match(check, ns, tb, rs, how) ==
    LET rule == get_rule(rs, check.rule_idx)
        rule_suc_len  == Len(rule.successors)
        rule_pred_len == Len(rule.predecessors)
        result   == rule.result
        expected == rule.successors[check.pos + 1]
        matches  == SelectSeq(Scan(get_table_entry(tb, check.rightmost).started, how),
                              LAMBDA s : get_node(ns, s).label = expected)
        new_check(s) == [check EXCEPT !.rightmost = get_node(ns, s).stop]
    IN  IF check.pos + 1 = rule_suc_len
        THEN IF rule_pred_len = 0
             THEN [new |-> [k \in 1..Len(matches) |->
                               new_non_terminal(result, check.leftmost, check.rightmost,
                                                check.rule_idx, check.right_nodes)],
                   checks |-> <<>>]
             ELSE [new |-> <<>>,
                   checks |-> [k \in 1..Len(matches) |->
                               [new_check(matches[k]) EXCEPT !.stage = "Left", !.pos = 0]]]
        ELSE [new |-> <<>>,
              checks |-> [k \in 1..Len(matches) |->
                          [new_check(matches[k]) EXCEPT !.pos = @ + 1]]]

(***************************************************************************)
(* check_right: for every node started at check.rightmost whose label is   *)
(* the expected successor, in scan order, either a node is pushed on       *)
(* new_nodes or a continuation on check_queue.                             *)
(***************************************************************************)
check_right(check, ns, tb, rs, how) ==
    LET rule == get_rule(rs, check.rule_idx)
        rule_suc_len  == Len(rule.successors)
        rule_pred_len == Len(rule.predecessors)
        result   == rule.result
        expected == rule.successors[check.pos + 1]
        matches  == SelectSeq(Scan(get_table_entry(tb, check.rightmost).started, how),
                              LAMBDA s : get_node(ns, s).label = expected)
        new_check(s) == [check EXCEPT !.rightmost = get_node(ns, s).stop,
                                      !.right_nodes = Append(@, s)]
    IN  IF check.pos + 1 = rule_suc_len
        THEN IF rule_pred_len = 0
             THEN [new |-> [k \in 1..Len(matches) |->
                               new_non_terminal(result, check.leftmost, check.rightmost,
                                                check.rule_idx, check.right_nodes)],
                   checks |-> <<>>]
             ELSE [new |-> <<>>,
                   checks |-> [k \in 1..Len(matches) |->
                               [new_check(matches[k]) EXCEPT !.stage = "Left", !.pos = 0]]]
        ELSE [new |-> <<>>,
              checks |-> [k \in 1..Len(matches) |->
                          [new_check(matches[k]) EXCEPT !.pos = @ + 1]]]

(***************************************************************************)
(* check_left: for every node terminated at check.rightmost whose label is *)
(* the expected predecessor, in scan order, either a node is pushed on     *)
(* new_nodes or a continuation on check_queue.                             *)
(***************************************************************************)
check_left(check, ns, tb, rs, how) ==
    LET rule == get_rule(rs, check.rule_idx)
        rule_pred_len == Len(rule.predecessors)
        result   == rule.result
        expected == rule.predecessors[check.pos + 1]
        matches  == SelectSeq(Scan(get_table_entry(tb, check.rightmost).terminated, how),
                              LAMBDA s : get_node(ns, s).label = expected)
    IN  IF check.pos + 1 = rule_pred_len
        THEN [new |-> [k \in 1..Len(matches) |->
                          new_non_terminal(result, check.leftmost, check.rightmost,
                                           check.rule_idx,
                                           Reverse(check.left_nodes) \o check.right_nodes)],
              checks |-> <<>>]
        ELSE [new |-> <<>>,
              checks |-> [k \in 1..Len(matches) |->
                          [check EXCEPT !.pos = @ + 1,
                                        !.leftmost = get_node(ns, matches[k]).start,
                                        !.left_nodes = Append(@, matches[k])]]]

\* The last loop of run_cycle stopping after the first new node.
add_new_nodes_first_only(st, new) ==
    IF new = <<>> THEN st
    ELSE LET r == add_node(st.nodes, st.table, Head(new))
         IN  [nodes |-> r.nodes, table |-> r.table,
              node_queue |-> Append(st.node_queue, r.idx)]

\* The last loop of run_cycle skipping a new node that is structurally equal
\* to one already in the arena.
RECURSIVE add_new_nodes_dedup(_, _)
add_new_nodes_dedup(st, new) ==
    IF new = <<>> THEN st
    ELSE IF \E k \in 1..Len(st.nodes) : st.nodes[k] = Head(new)
    THEN add_new_nodes_dedup(st, Tail(new))
    ELSE LET r == add_node(st.nodes, st.table, Head(new))
         IN  add_new_nodes_dedup([nodes |-> r.nodes, table |-> r.table,
                                  node_queue |-> Append(st.node_queue, r.idx)],
                                 Tail(new))

\* The last loop of run_cycle pushing each new handle on the node-queue twice.
RECURSIVE add_new_nodes_pushes_twice(_, _)
add_new_nodes_pushes_twice(st, new) ==
    IF new = <<>> THEN st
    ELSE LET r == add_node(st.nodes, st.table, Head(new))
         IN  add_new_nodes_pushes_twice(
                 [nodes |-> r.nodes, table |-> r.table,
                  node_queue |-> st.node_queue \o <<r.idx, r.idx>>],
                 Tail(new))

(***************************************************************************)
(* The last loop of run_cycle: add_node and push_back for each new node.   *)
(***************************************************************************)
RECURSIVE add_new_nodes(_, _)
add_new_nodes(st, new) ==
    IF new = <<>> THEN st
    ELSE LET r == add_node(st.nodes, st.table, Head(new))
         IN  add_new_nodes([nodes |-> r.nodes, table |-> r.table,
                            node_queue |-> Append(st.node_queue, r.idx)],
                           Tail(new))

(***************************************************************************)
(* run_cycle as the source runs it, as a function of the state at a cycle  *)
(* boundary (arena, table, node-queue; the check-queue is empty there):    *)
(* drain the node-queue from the front, drain the check-queue from the     *)
(* front, add the new nodes.                                               *)
(***************************************************************************)
RECURSIVE drain_node_queue(_, _, _, _)
drain_node_queue(nq, acc, st, rs) ==
    IF nq = <<>> THEN acc
    ELSE LET r == check_node(Head(nq), st.nodes, rs, make_rule_map(rs))
         IN  drain_node_queue(Tail(nq),
                 [checks |-> acc.checks \o r.checks, new |-> acc.new \o r.new], st, rs)

RECURSIVE drain_check_queue(_, _, _, _)
drain_check_queue(cq, new, st, rs) ==
    IF cq = <<>> THEN new
    ELSE LET r == IF Head(cq).stage = "Right"
                      THEN check_right(Head(cq), st.nodes, st.table, rs, "forward")
                      ELSE check_left(Head(cq), st.nodes, st.table, rs, "forward")
         IN  drain_check_queue(Tail(cq) \o r.checks, new \o r.new, st, rs)

run_cycle(st, rs) ==
    LET a   == drain_node_queue(st.node_queue, [checks |-> <<>>, new |-> <<>>], st, rs)
        new == drain_check_queue(a.checks, a.new, st, rs)
    IN  add_new_nodes([nodes |-> st.nodes, table |-> st.table, node_queue |-> <<>>], new)

\* The state k calls of run_cycle after State::new(rs, toks).
RECURSIVE run_cycles(_, _, _)
run_cycles(rs, toks, k) ==
    IF k = 0
    THEN LET st == State_new(rs, toks)
         IN  [nodes |-> st.nodes, table |-> st.table, node_queue |-> st.node_queue]
    ELSE run_cycle(run_cycles(rs, toks, k - 1), rs)

\* Nothing has been called yet.
NoResult == [none |-> TRUE]

\* No LRParser has been built.
LRIdle ==
    /\ lr = NoResult
    /\ lr_panicked = FALSE
    /\ lr_output = NoResult
    /\ lr_steps = 0

\* No Input, no CFG and no LRParser has been built.
AuxIdle ==
    /\ text = <<>>
    /\ newline_table = <<>>
    /\ text_index = 0
    /\ line_num = NoResult
    /\ position = NoResult
    /\ productions = <<>>
    /\ cfg = NoResult
    /\ LRIdle

(***************************************************************************)
(* Initial states: the state State::new returns, for every input.          *)
(***************************************************************************)
InitWith(input, how) ==
    LET st == State_new(input[1], input[2])
    IN  /\ tokens = input[2]
        /\ rules = st.rules
        /\ rule_map = st.rule_map
        /\ table = st.table
        /\ nodes = st.nodes
        /\ node_queue = st.node_queue
        /\ check_queue = st.check_queue
        /\ new_nodes = <<>>
        /\ pc = "idle"
        /\ cycles = 0
        /\ discipline = how

\* The same inputs, run under every queue discipline and scan order.
InitOrders ==
    /\ \E input \in Inputs : \E how \in Disciplines : InitWith(input, how)
    /\ AuxIdle

Init ==
    /\ \E input \in Inputs : InitWith(input, SourceDiscipline)
    /\ AuxIdle

(***************************************************************************)
(* run_till_done: while !done() { run_cycle() }.                           *)
(***************************************************************************)
\* The loop test fails: run_till_done returns.
Return ==
    /\ pc = "idle"
    /\ done(node_queue, check_queue)
    /\ pc' = "returned"
    /\ UNCHANGED <<tokens, rules, rule_map, table, nodes, node_queue, check_queue,
                   new_nodes, cycles, discipline>>
    /\ UNCHANGED aux

\* The loop test holds: run_cycle is entered with an empty new_nodes.
RunCycle ==
    /\ pc = "idle"
    /\ ~done(node_queue, check_queue)
    /\ pc' = "cycle"
    /\ new_nodes' = <<>>
    /\ UNCHANGED <<tokens, rules, rule_map, table, nodes, node_queue, check_queue,
                   cycles, discipline>>
    /\ UNCHANGED aux

\* An iteration of the first loop that adds what check_node pushed to the
\* arena, the table and the node-queue at once.
CheckNode_adds_at_once ==
    /\ pc = "cycle"
    /\ node_queue # <<>>
    /\ LET r == check_node(PopItem(node_queue, discipline.nq), nodes, rules, rule_map)
           st == add_new_nodes([nodes |-> nodes, table |-> table,
                                node_queue |-> PopRest(node_queue, discipline.nq)],
                               r.new)
       IN  /\ Len(nodes) + Len(r.new) <= MaxNodes
           /\ nodes' = st.nodes
           /\ table' = st.table
           /\ node_queue' = st.node_queue
           /\ check_queue' = check_queue \o r.checks
    /\ UNCHANGED <<tokens, rules, rule_map, new_nodes, pc, cycles, discipline>>
    /\ UNCHANGED aux

\* One iteration of the first loop of run_cycle.
CheckNode ==
    /\ pc = "cycle"
    /\ node_queue # <<>>
    /\ LET r == check_node(PopItem(node_queue, discipline.nq), nodes, rules, rule_map)
       IN  /\ node_queue' = PopRest(node_queue, discipline.nq)
           /\ check_queue' = check_queue \o r.checks
           /\ new_nodes' = new_nodes \o r.new
    /\ UNCHANGED <<tokens, rules, rule_map, table, nodes, pc, cycles, discipline>>
    /\ UNCHANGED aux

\* One iteration of the second loop of run_cycle, on a Check of stage Right.
CheckRight ==
    /\ pc = "cycle"
    /\ node_queue = <<>>
    /\ check_queue # <<>>
    /\ PopItem(check_queue, discipline.cq).stage = "Right"
    /\ LET r == check_right(PopItem(check_queue, discipline.cq), nodes, table, rules,
                            discipline.scan)
       IN  /\ check_queue' = PopRest(check_queue, discipline.cq) \o r.checks
           /\ new_nodes' = new_nodes \o r.new
    /\ UNCHANGED <<tokens, rules, rule_map, table, nodes, node_queue, pc, cycles,
                   discipline>>
    /\ UNCHANGED aux

\* One iteration of the second loop of run_cycle, on a Check of stage Left.
CheckLeft ==
    /\ pc = "cycle"
    /\ node_queue = <<>>
    /\ check_queue # <<>>
    /\ PopItem(check_queue, discipline.cq).stage = "Left"
    /\ LET r == check_left(PopItem(check_queue, discipline.cq), nodes, table, rules,
                           discipline.scan)
       IN  /\ check_queue' = PopRest(check_queue, discipline.cq) \o r.checks
           /\ new_nodes' = new_nodes \o r.new
    /\ UNCHANGED <<tokens, rules, rule_map, table, nodes, node_queue, pc, cycles,
                   discipline>>
    /\ UNCHANGED aux

\* The third loop of run_cycle without the push_back on node_queue.
AddNewNodes_without_requeue ==
    /\ pc = "cycle"
    /\ node_queue = <<>>
    /\ check_queue = <<>>
    /\ Len(nodes) + Len(new_nodes) <= MaxNodes
    /\ LET st == add_new_nodes([nodes |-> nodes, table |-> table,
                                node_queue |-> node_queue], new_nodes)
       IN  /\ nodes' = st.nodes
           /\ table' = st.table
    /\ new_nodes' = <<>>
    /\ pc' = "idle"
    /\ cycles' = cycles + 1
    /\ UNCHANGED <<tokens, rules, rule_map, node_queue, check_queue, discipline>>
    /\ UNCHANGED aux

\* The third loop of run_cycle, and its return to run_till_done.
AddNewNodes ==
    /\ pc = "cycle"
    /\ node_queue = <<>>
    /\ check_queue = <<>>
    /\ Len(nodes) + Len(new_nodes) <= MaxNodes
    /\ LET st == add_new_nodes([nodes |-> nodes, table |-> table,
                                node_queue |-> node_queue], new_nodes)
       IN  /\ nodes' = st.nodes
           /\ table' = st.table
           /\ node_queue' = st.node_queue
    /\ new_nodes' = <<>>
    /\ pc' = "idle"
    /\ cycles' = cycles + 1
    /\ UNCHANGED <<tokens, rules, rule_map, check_queue, discipline>>
    /\ UNCHANGED aux

Next ==
    \/ Return
    \/ RunCycle
    \/ CheckNode
    \/ CheckRight
    \/ CheckLeft
    \/ AddNewNodes

Spec == Init /\ [][Next]_vars

SpecOrders == InitOrders /\ [][Next]_vars

\* run_till_done is a plain loop of a single thread: it takes its next step
\* whenever it has one.
FairSpec == Spec /\ WF_vars(Next)

(***************************************************************************)
(* Input (src/src/text/mod.rs): the newline table and the lookup of a      *)
(* line and column by text index.  A text is a sequence of characters;     *)
(* indices are byte offsets, as str::char_indices yields them.  A Vec      *)
(* index out of range, and a usize subtraction below zero, end the call    *)
(* in a panic, which the result records.                                   *)
(***************************************************************************)
MaxText == 7   \* most characters of an enumerated text

\* A one-byte character, the newline, and a two-byte character.
Chars == {"x", "\n", "U+00E9"}

Texts == SeqsUpTo(Chars, MaxText)

len_utf8(c) == IF c = "U+00E9" THEN 2 ELSE 1

\* String::len: the length in bytes.
RECURSIVE text_len(_)
text_len(t) == IF t = <<>> THEN 0 ELSE len_utf8(Head(t)) + text_len(Tail(t))

Panicked == [panic |-> TRUE, val |-> 0]

Ok(v) == [panic |-> FALSE, val |-> v]

\* Whether k indexes the Vec v.
InRange(v, k) == k \in 0..(Len(v) - 1)

\* find_newlines, from character k at byte offset i.
RECURSIVE find_newlines_from(_, _, _)
find_newlines_from(t, k, i) ==
    IF k > Len(t) THEN <<>>
    ELSE (IF t[k] = "\n" THEN <<i>> ELSE <<>>)
             \o find_newlines_from(t, k + 1, i + len_utf8(t[k]))

find_newlines(t) == find_newlines_from(t, 1, 0)

get_line_start(tbl, line) ==
    IF line = 0 THEN Ok(0)
    ELSE IF InRange(tbl, line - 1) THEN Ok(tbl[line] + 1)
    ELSE Panicked

\* The while loop of get_line_num.
RECURSIVE get_line_num_loop(_, _, _, _)
get_line_num_loop(tbl, idx, left, right) ==
    IF left # right /\ left + 1 # right
    THEN LET middle == (left + right) \div 2
         IN  IF ~InRange(tbl, middle) \/ ~InRange(tbl, middle + 1) THEN Panicked
             ELSE LET middle_low == tbl[middle + 1]
                      middle_high == tbl[middle + 2]
                  IN  IF idx = middle_low THEN Ok(middle)
                      ELSE IF idx < middle_low
                      THEN get_line_num_loop(tbl, idx, left, middle)
                      ELSE IF idx > middle_high
                      THEN get_line_num_loop(tbl, idx, middle, right)
                      ELSE Ok(middle + 1)
    ELSE Ok(left + 1)

\* get_line_num without its case for a table of two newlines.
get_line_num_without_len_2(tbl, idx) ==
    IF tbl = <<>> THEN Ok(0)
    ELSE LET overall_low == tbl[1]
             overall_high == tbl[Len(tbl)]
         IN  IF idx <= overall_low THEN Ok(0)
             ELSE IF idx > overall_high THEN Ok(Len(tbl))
             ELSE get_line_num_loop(tbl, idx, 0, Len(tbl))

get_line_num(tbl, idx) ==
    IF tbl = <<>> THEN Ok(0)
    ELSE LET overall_low == tbl[1]
             overall_high == tbl[Len(tbl)]
         IN  IF idx <= overall_low THEN Ok(0)
             ELSE IF idx > overall_high THEN Ok(Len(tbl))
             ELSE IF Len(tbl) = 2 THEN Ok(1)
             ELSE get_line_num_loop(tbl, idx, 0, Len(tbl))

PosPanicked == [panic |-> TRUE, line |-> 0, col |-> 0]

Pos(line, col) == [panic |-> FALSE, line |-> line, col |-> col]

get_pos(tbl, idx) ==
    LET line == get_line_num(tbl, idx)
    IN  IF line.panic THEN PosPanicked
        ELSE IF line.val = 0 THEN Pos(0, idx)
        ELSE LET start == get_line_start(tbl, line.val)
             IN  IF start.panic \/ idx < start.val THEN PosPanicked
                 ELSE Pos(line.val, idx - start.val)

\* Input::new on every enumerated text; the engine is not involved.
InitText ==
    /\ InitWith(<<(<<>>), (<<>>)>>, SourceDiscipline)
    /\ \E t \in Texts :
        /\ text = t
        /\ newline_table = find_newlines(t)
    /\ text_index = 0
    /\ line_num = NoResult
    /\ position = NoResult
    /\ productions = <<>>
    /\ cfg = NoResult
    /\ LRIdle

GetLineNum ==
    \E i \in 0..text_len(text) :
        /\ text_index' = i
        /\ line_num' = get_line_num(newline_table, i)
        /\ position' = NoResult
        /\ UNCHANGED <<engine, text, newline_table, productions, cfg,
                       lr, lr_panicked, lr_output, lr_steps>>

GetPos ==
    \E i \in 0..text_len(text) :
        /\ text_index' = i
        /\ line_num' = get_line_num(newline_table, i)
        /\ position' = get_pos(newline_table, i)
        /\ UNCHANGED <<engine, text, newline_table, productions, cfg,
                       lr, lr_panicked, lr_output, lr_steps>>

NextText ==
    \/ GetLineNum
    \/ GetPos

SpecText == InitText /\ [][NextText]_vars

(***************************************************************************)
(* CFG::from (src/src/parsers/mod.rs).  indexed_rules is a function on     *)
(* 0..(rows - 1); a row is a sequence of productions.                      *)
(***************************************************************************)
MaxProductions == 3   \* most productions handed to CFG::from
MaxLeft == 2          \* largest left non-terminal index of a production

Term(n) == [kind |-> "Terminal", val |-> n]

NonTerm(n) == [kind |-> "NonTerminal", val |-> n]

CFGProduction(left, right) == [left |-> left, right |-> right]

\* Two right-hand sides, so that productions of one left index differ.
RightSides == {<<Term(0)>>, <<NonTerm(0), NonTerm(0)>>}

Productions == {CFGProduction(l, r) : l \in 0..MaxLeft, r \in RightSides}

ProductionVectors == SeqsUpTo(Productions, MaxProductions)

\* The first loop of CFG::from, from production i on.
RECURSIVE cfg_max_index(_, _, _)
cfg_max_index(prods, i, max_index) ==
    IF i > Len(prods) THEN max_index
    ELSE cfg_max_index(prods, i + 1,
                       IF prods[i].left > max_index THEN prods[i].left ELSE max_index)

\* The third loop of CFG::from putting each production at the front of its row.
RECURSIVE cfg_fill_at_front(_, _, _)
cfg_fill_at_front(prods, i, indexed_rules) ==
    IF i > Len(prods) THEN [panic |-> FALSE, indexed_rules |-> indexed_rules]
    ELSE IF prods[i].left \notin DOMAIN indexed_rules
    THEN [panic |-> TRUE, indexed_rules |-> indexed_rules]
    ELSE cfg_fill_at_front(prods, i + 1,
             [indexed_rules EXCEPT ![prods[i].left] = <<prods[i]>> \o @])

\* The third loop of CFG::from, from production i on.
RECURSIVE cfg_fill(_, _, _)
cfg_fill(prods, i, indexed_rules) ==
    IF i > Len(prods) THEN [panic |-> FALSE, indexed_rules |-> indexed_rules]
    ELSE IF prods[i].left \notin DOMAIN indexed_rules
    THEN [panic |-> TRUE, indexed_rules |-> indexed_rules]
    ELSE cfg_fill(prods, i + 1,
             [indexed_rules EXCEPT ![prods[i].left] = Append(@, prods[i])])

CFG_from(prods) ==
    LET max_index == cfg_max_index(prods, 1, 0)
    IN  cfg_fill(prods, 1, [k \in 0..max_index |-> <<>>])

\* Every enumerated vector of productions; the engine is not involved.
InitCFG ==
    /\ InitWith(<<(<<>>), (<<>>)>>, SourceDiscipline)
    /\ text = <<>>
    /\ newline_table = <<>>
    /\ text_index = 0
    /\ line_num = NoResult
    /\ position = NoResult
    /\ productions \in ProductionVectors
    /\ cfg = NoResult
    /\ LRIdle

From ==
    /\ cfg = NoResult
    /\ cfg' = CFG_from(productions)
    /\ UNCHANGED <<engine, text, newline_table, text_index, line_num, position,
                   productions, lr, lr_panicked, lr_output, lr_steps>>

NextCFG == From

SpecCFG == InitCFG /\ [][NextCFG]_vars

(***************************************************************************)
(* LRParser (src/src/parsers/lr1/parser.rs) over an LRTransition: the      *)
(* tables are any functions on a small set of states and symbols.  A call  *)
(* returns the parser as it leaves it and whether it panicked.             *)
(***************************************************************************)
MaxLRInput == 2   \* longest input handed to LRParser::new
MaxSteps == 3     \* most calls of execute_step on one parser

LRStates == {0, 1}

LRTerms == {0}

LRNonTerms == {0}

ReduceSizes == {0, 1}

None == [kind |-> "None"]

Some(v) == [kind |-> "Some", val |-> v]

Accept == [kind |-> "Accept"]

Error == [kind |-> "Error"]

Shift == [kind |-> "Shift"]

Reduce(nonterm, count) == [kind |-> "Reduce", nonterm |-> nonterm, nodes |-> count]

ParseActions ==
    {Accept, Error, Shift} \cup {Reduce(a, n) : a \in LRNonTerms, n \in ReduceSizes}

EndParseActions ==
    {Accept, Error} \cup {Reduce(a, n) : a \in LRNonTerms, n \in ReduceSizes}

LRSymbols == {Term(t) : t \in LRTerms} \cup {NonTerm(a) : a \in LRNonTerms}

LRTransitions ==
    [get_action     : [LRStates \X LRTerms -> ParseActions],
     get_action_end : [LRStates -> EndParseActions],
     get_state      : [LRStates \X LRSymbols -> {None} \cup {Some(q) : q \in LRStates}]]

LRInputs == SeqsUpTo(LRTerms, MaxLRInput)

initial_state == 0

new_leaf(val) == [kind |-> "Leaf", val |-> val, children |-> <<>>]

new_branch(val, children) == [kind |-> "Branch", val |-> val, children |-> children]

root_as_symbol(box_tree) ==
    IF box_tree.kind = "Branch" THEN NonTerm(box_tree.val) ELSE Term(box_tree.val)

LRParser_new(transition, input) ==
    [transition  |-> transition,
     input       |-> input,
     input_index |-> 0,
     state_stack |-> <<initial_state>>,
     forest      |-> <<>>,
     failed      |-> FALSE,
     finished    |-> FALSE]

Returned(p) == [p |-> p, panicked |-> FALSE]

Unwound(p) == [p |-> p, panicked |-> TRUE]

\* reduce: forest.pop().unwrap() panics on an empty forest; state_stack.pop()
\* on an empty stack does nothing.
reduce(p, nonterm, count) ==
    LET trees  == Len(p.forest)
        states == Len(p.state_stack)
        popped(n) == IF states > n THEN SubSeq(p.state_stack, 1, states - n) ELSE <<>>
    IN  IF count > trees
        THEN Unwound([p EXCEPT !.forest = <<>>, !.state_stack = popped(trees)])
        ELSE Returned([p EXCEPT
                 !.forest = Append(SubSeq(@, 1, trees - count),
                                   new_branch(nonterm,
                                              SubSeq(p.forest, trees - count + 1, trees))),
                 !.state_stack = popped(count)])

execute_end_action(p, top_state) ==
    LET end_action == p.transition.get_action_end[top_state]
    IN  CASE end_action = Accept -> Returned([p EXCEPT !.finished = TRUE])
          [] end_action = Error  -> Returned([p EXCEPT !.failed = TRUE])
          [] OTHER -> reduce(p, end_action.nonterm, end_action.nodes)

execute_action(p, top_state) ==
    LET next_input == p.input[p.input_index + 1]
        q == [p EXCEPT !.input_index = @ + 1]
        action == p.transition.get_action[<<top_state, next_input>>]
    IN  CASE action = Accept -> Returned([q EXCEPT !.finished = TRUE])
          [] action = Error  -> Returned([q EXCEPT !.failed = TRUE])
          [] action = Shift  -> Returned([q EXCEPT !.forest = Append(@, new_leaf(next_input))])
          [] OTHER -> reduce(q, action.nonterm, action.nodes)

\* execute_step: the return inside execute_end_action and execute_action
\* leaves the helper only; the step goes on with the right-most tree.
execute_step(p) ==
    IF p.failed \/ p.finished THEN Returned(p)
    ELSE IF p.state_stack = <<>> THEN Returned([p EXCEPT !.failed = TRUE])
    ELSE LET top_state == Last(p.state_stack)
             r == IF p.input_index = Len(p.input)
                      THEN execute_end_action(p, top_state)
                      ELSE execute_action(p, top_state)
         IN  IF r.panicked THEN r
             ELSE IF r.p.forest = <<>> THEN Unwound(r.p)
             ELSE LET right_most == root_as_symbol(Last(r.p.forest))
                      next_state == r.p.transition.get_state[<<top_state, right_most>>]
                  IN  IF next_state # None
                          THEN Returned([r.p EXCEPT !.state_stack = Append(@, next_state.val)])
                          ELSE Returned([r.p EXCEPT !.failed = TRUE])

\* to_output: the value returned, and the parser it consumed.
to_output(p) ==
    IF p.finished /\ ~p.failed
        THEN IF p.forest = <<>>
                 THEN [p |-> p, panicked |-> TRUE, out |-> None]
                 ELSE [p |-> [p EXCEPT !.forest = Tail(@)], panicked |-> FALSE,
                       out |-> Some(Head(p.forest))]
        ELSE [p |-> p, panicked |-> FALSE, out |-> None]

InitLR ==
    /\ InitWith(<<(<<>>), (<<>>)>>, SourceDiscipline)
    /\ text = <<>>
    /\ newline_table = <<>>
    /\ text_index = 0
    /\ line_num = NoResult
    /\ position = NoResult
    /\ productions = <<>>
    /\ cfg = NoResult
    /\ \E transition \in LRTransitions, input \in LRInputs :
           lr = LRParser_new(transition, input)
    /\ lr_panicked = FALSE
    /\ lr_output = NoResult
    /\ lr_steps = 0

ExecuteStep ==
    /\ ~lr_panicked
    /\ lr_output = NoResult
    /\ lr_steps < MaxSteps
    /\ LET r == execute_step(lr)
       IN  /\ lr' = r.p
           /\ lr_panicked' = r.panicked
    /\ lr_steps' = lr_steps + 1
    /\ UNCHANGED <<engine, text, newline_table, text_index, line_num, position,
                   productions, cfg, lr_output>>

ToOutput ==
    /\ ~lr_panicked
    /\ lr_output = NoResult
    /\ LET r == to_output(lr)
       IN  /\ lr' = r.p
           /\ lr_panicked' = r.panicked
           /\ lr_output' = IF r.panicked THEN NoResult ELSE r.out
    /\ UNCHANGED <<engine, text, newline_table, text_index, line_num, position,
                   productions, cfg, lr_steps>>

NextLR ==
    \/ ExecuteStep
    \/ ToOutput

SpecLR == InitLR /\ [][NextLR]_vars

(***************************************************************************)
(* Views of the arena used by the properties.                              *)
(***************************************************************************)
Handles == 0..(Len(nodes) - 1)

NonTerminals == {h \in Handles : get_node(nodes, h).kind = "NonTerminal"}

Terminals == {h \in Handles : get_node(nodes, h).kind = "Terminal"}

RuleHandles == 0..(Len(rules) - 1)

N == Len(tokens)

Range(s) == {s[k] : k \in 1..Len(s)}

ChildLabels(h) ==
    LET c == get_node(nodes, h).children
    IN  [k \in 1..Len(c) |-> get_node(nodes, c[k]).label]

\* The positions where a chain of adjacent arena nodes labelled labels[1],
\* labels[2], ... that starts at pos can stop.
RECURSIVE ChainStops(_, _)
ChainStops(labels, pos) ==
    IF labels = <<>> THEN {pos}
    ELSE UNION {ChainStops(Tail(labels), get_node(nodes, h).stop) :
                  h \in {x \in Handles : /\ get_node(nodes, x).start = pos
                                          /\ get_node(nodes, x).label = Head(labels)}}

\* The positions where a chain of adjacent arena nodes labelled labels[1],
\* labels[2], ... going leftwards from pos (labels[1] stops at pos) can start.
RECURSIVE ChainStarts(_, _)
ChainStarts(labels, pos) ==
    IF labels = <<>> THEN {pos}
    ELSE UNION {ChainStarts(Tail(labels), get_node(nodes, h).start) :
                  h \in {x \in Handles : /\ get_node(nodes, x).stop = pos
                                          /\ get_node(nodes, x).label = Head(labels)}}

\* The terminal leaves below a node, left to right.
RECURSIVE Leaves(_)
RECURSIVE LeavesOfAll(_)
Leaves(h) ==
    IF get_node(nodes, h).kind = "Terminal" THEN <<h>>
    ELSE LeavesOfAll(get_node(nodes, h).children)
LeavesOfAll(hs) ==
    IF hs = <<>> THEN <<>> ELSE Leaves(Head(hs)) \o LeavesOfAll(Tail(hs))

\* A node as the tuple (label, start, stop, meta), its children replaced by
\* their own tuples.
RECURSIVE TupleOf(_, _)
TupleOf(ns, h) ==
    LET n == get_node(ns, h)
    IN  [label |-> n.label, start |-> n.start, stop |-> n.stop, kind |-> n.kind,
         token_idx |-> n.token_idx, rule |-> n.rule,
         children |-> [k \in 1..Len(n.children) |-> TupleOf(ns, n.children[k])]]

TupleSet(ns) == {TupleOf(ns, h) : h \in 0..(Len(ns) - 1)}

Emitted(label, start, stop) ==
    {h \in NonTerminals : /\ get_node(nodes, h).label = label
                          /\ get_node(nodes, h).start = start
                          /\ get_node(nodes, h).stop = stop}

C1_CutRunsPump ==
    (pc = "cycle" /\ node_queue = <<>> /\ check_queue = <<>>
        /\ Len(nodes) + Len(new_nodes) > MaxNodes) =>
        /\ Len(rules) = 1
        /\ rules[1].result = rules[1].base
        /\ new_nodes # <<>>
        /\ \A k \in 1..Len(new_nodes) : new_nodes[k].label = rules[1].base

(***************************************************************************)
(* C2.  Completeness at the fixpoint: once run_till_done has returned,     *)
(* for every rule r, every arena node b labelled r.base, every position l  *)
(* where a chain of adjacent nodes labelled r.predecessors leftwards from  *)
(* b.start can start and every position e where a chain of adjacent nodes  *)
(* labelled r.successors from b.stop can stop, the arena holds a           *)
(* non-terminal labelled r.result with rule r spanning [l, e).             *)
(***************************************************************************)
C2_CompleteAtFixpoint ==
    pc = "returned" =>
        \A r \in RuleHandles : \A b \in Handles :
            get_node(nodes, b).label = get_rule(rules, r).base =>
                \A l \in ChainStarts(get_rule(rules, r).predecessors, get_node(nodes, b).start) :
                \A e \in ChainStops(get_rule(rules, r).successors, get_node(nodes, b).stop) :
                    \E n \in Emitted(get_rule(rules, r).result, l, e) :
                        get_node(nodes, n).rule = r

(***************************************************************************)
(* C3.  Every non-terminal of the arena starts where its first child       *)
(* starts, stops where its last child stops, and each child starts where   *)
(* the child before it stops.                                              *)
(***************************************************************************)
C3_ChildrenTileTheSpan ==
    \A h \in NonTerminals :
        LET n == get_node(nodes, h)
            c == n.children
        IN  /\ c # <<>>
            /\ n.start = get_node(nodes, c[1]).start
            /\ n.stop = get_node(nodes, c[Len(c)]).stop
            /\ \A k \in 1..(Len(c) - 1) :
                   get_node(nodes, c[k + 1]).start = get_node(nodes, c[k]).stop

(***************************************************************************)
(* C4.  The labels of the children of every non-terminal emitted for rule  *)
(* r are reverse(r.predecessors) ++ [r.base] ++ r.successors, in order.    *)
(***************************************************************************)
C4_ChildLabelsAreTheRule ==
    \A h \in NonTerminals :
        LET r == get_rule(rules, get_node(nodes, h).rule)
        IN  ChildLabels(h) = Reverse(r.predecessors) \o <<r.base>> \o r.successors

(***************************************************************************)
(* C5.  In every state every handle h of the arena is in the started list  *)
(* of its node's start and in the terminated list of its node's stop.      *)
(***************************************************************************)
C5_NodeInBothTableLists ==
    \A h \in Handles :
        /\ h \in Range(table[get_node(nodes, h).start].started)
        /\ h \in Range(table[get_node(nodes, h).stop].terminated)

\* A non-terminal has been added by run_cycle, next to the terminals.
C5_Witness ==
    /\ pc = "idle"
    /\ NonTerminals # {}
    /\ Terminals # {}

(***************************************************************************)
(* C6.  The leaves below every non-terminal n, left to right, carry the    *)
(* token indices n.start, n.start + 1, ..., n.stop - 1.                    *)
(***************************************************************************)
C6_LeavesAreTheSpan ==
    \A h \in NonTerminals :
        LET n == get_node(nodes, h)
            l == Leaves(h)
        IN  [k \in 1..Len(l) |-> get_node(nodes, l[k]).token_idx]
                = [k \in 1..(n.stop - n.start) |-> n.start + k - 1]

(***************************************************************************)
(* C7.  For a fixed grammar and token vector the set of emitted            *)
(* (label, start, stop, rule, children) tuples, children taken as the      *)
(* children's own tuples, is the same under every queue discipline (FIFO   *)
(* or LIFO on either queue) and every scan order of the table lists: at    *)
(* every cycle boundary it is the set the source's own order (pop_front,   *)
(* front-to-back scan) has after the same number of cycles, and the run    *)
(* returns exactly when the source's run has nothing left to do.           *)
(* Checked under SpecOrders.                                               *)
(***************************************************************************)
C7_SameSetUnderEveryOrder ==
    pc \in {"idle", "returned"} =>
        LET ref == run_cycles(rules, tokens, cycles)
        IN  /\ TupleSet(nodes) = TupleSet(ref.nodes)
            /\ (node_queue = <<>>) = (ref.node_queue = <<>>)

\* A run that pops both queues from the back and scans backwards has
\* returned with an arena that is ordered differently from the source's.
C7_Witness ==
    /\ pc = "returned"
    /\ discipline = [nq |-> "LIFO", cq |-> "LIFO", scan |-> "reverse"]
    /\ Cardinality(NonTerminals) >= 2
    /\ nodes # run_cycles(rules, tokens, cycles).nodes

(***************************************************************************)
(* C8.  run_till_done returns only with both queues empty, and whenever    *)
(* done() holds between engine operations (after new, after a run_cycle)   *)
(* both queues are empty.                                                  *)
(***************************************************************************)
C8_DoneMeansBothQueuesEmpty ==
    /\ pc = "returned" => node_queue = <<>> /\ check_queue = <<>>
    /\ (pc \in {"idle", "returned"} /\ done(node_queue, check_queue)) =>
           node_queue = <<>> /\ check_queue = <<>>

\* run_till_done has returned after a cycle that processed Checks.
C8_Witness ==
    /\ pc = "returned"
    /\ cycles > 0
    /\ \E r \in RuleHandles : \E h \in Handles :
           /\ get_rule(rules, r).base = get_node(nodes, h).label
           /\ get_rule(rules, r).successors # <<>>

(***************************************************************************)
(* C9.  State::new on N tokens: a table of N + 1 entries; for each token   *)
(* index i the terminal with label token i, start i, stop i + 1,           *)
(* token_idx i at handle i, and nothing else in the arena; the node-queue  *)
(* holds the handles 0..N-1 in order; the check-queue is empty.            *)
(***************************************************************************)
C9_StateNew ==
    (pc = "idle" /\ cycles = 0) =>
        /\ DOMAIN table = 0..N
        /\ Len(nodes) = N
        /\ \A i \in 0..(N - 1) :
               LET n == get_node(nodes, i)
               IN  /\ n.kind = "Terminal"
                   /\ n.label = tokens[i + 1]
                   /\ n.start = i
                   /\ n.stop = i + 1
                   /\ n.token_idx = i
        /\ node_queue = [k \in 1..N |-> k - 1]
        /\ check_queue = <<>>
        /\ NonTerminals = {}

\* The state State::new returns for two or more tokens and a grammar with a rule.
C9_Witness ==
    /\ pc = "idle"
    /\ cycles = 0
    /\ N >= 2
    /\ Len(rules) >= 1

(***************************************************************************)
(* C10.  Scenario B (rule S <- base a, successors [b, c]; tokens a b c):   *)
(* at the fixpoint the arena holds exactly one S node, it spans (0, 3),    *)
(* its children are the terminals a, b, c in order, and no S spans (0, 2). *)
(***************************************************************************)
C10_ScenarioB ==
    (pc = "returned" /\ <<rules, tokens>> = ScenarioB) =>
        /\ Cardinality({h \in NonTerminals : get_node(nodes, h).label = "S"}) = 1
        /\ \A h \in NonTerminals :
               /\ get_node(nodes, h).start = 0
               /\ get_node(nodes, h).stop = 3
               /\ get_node(nodes, h).children = <<0, 1, 2>>
        /\ Emitted("S", 0, 2) = {}

(***************************************************************************)
(* C11.  Scenario C (rule S <- base c, predecessors [b, a]; tokens a b c): *)
(* at the fixpoint the arena holds exactly one S node, it spans (0, 3)     *)
(* and its children are the terminals a, b, c in that order.               *)
(***************************************************************************)
C11_ScenarioC ==
    (pc = "returned" /\ <<rules, tokens>> = ScenarioC) =>
        /\ Cardinality({h \in NonTerminals : get_node(nodes, h).label = "S"}) = 1
        /\ \A h \in NonTerminals :
               /\ get_node(nodes, h).start = 0
               /\ get_node(nodes, h).stop = 3
               /\ get_node(nodes, h).children = <<0, 1, 2>>

(***************************************************************************)
(* C12.  Scenario D (rule S <- base m, predecessors [l], successors [r];   *)
(* tokens l m r): at the fixpoint the arena holds exactly one S node, it   *)
(* spans (0, 3) and its children are the terminals l, m, r in that order.  *)
(***************************************************************************)
C12_ScenarioD ==
    (pc = "returned" /\ <<rules, tokens>> = ScenarioD) =>
        /\ Cardinality({h \in NonTerminals : get_node(nodes, h).label = "S"}) = 1
        /\ \A h \in NonTerminals :
               /\ get_node(nodes, h).label = "S"
               /\ get_node(nodes, h).start = 0
               /\ get_node(nodes, h).stop = 3
               /\ get_node(nodes, h).children = <<0, 1, 2>>

(***************************************************************************)
(* C13.  Scenario E (rules S <- base a, successors [a] and S <- base a;    *)
(* tokens a a): at the fixpoint the non-terminals of the arena are exactly *)
(* three nodes, with (label, start, stop) = (S,0,1), (S,1,2) and (S,0,2).  *)
(***************************************************************************)
C13_ScenarioE ==
    (pc = "returned" /\ <<rules, tokens>> = ScenarioE) =>
        /\ Cardinality(NonTerminals) = 3
        /\ {<<get_node(nodes, h).label, get_node(nodes, h).start, get_node(nodes, h).stop>> :
                h \in NonTerminals}
               = {<<"S", 0, 1>>, <<"S", 1, 2>>, <<"S", 0, 2>>}

C15_EmptyInput ==
    tokens = <<>> =>
        /\ done(node_queue, check_queue)
        /\ pc \in {"idle", "returned"}
        /\ cycles = 0
        /\ nodes = <<>>
        /\ node_queue = <<>>
        /\ check_queue = <<>>
        /\ new_nodes = <<>>
        /\ DOMAIN table = {0}
        /\ table[0] = TableEntry_new

\* run_till_done has returned on no tokens, for a grammar that has a rule.
C15_Witness ==
    /\ tokens = <<>>
    /\ Len(rules) >= 1
    /\ pc = "returned"

(***************************************************************************)
(* C16.  With a grammar of zero rules, for every token vector, the run     *)
(* reaches the fixpoint (it is never stuck, and after the first run_cycle  *)
(* the node-queue is empty), the arena holds the N terminals and nothing   *)
(* else in every state, and no Check and no new node is ever produced.     *)
(***************************************************************************)
C16_NoRules ==
    rules = <<>> =>
        /\ Len(nodes) = N
        /\ NonTerminals = {}
        /\ check_queue = <<>>
        /\ new_nodes = <<>>
        /\ cycles <= 1
        /\ (pc = "idle" /\ cycles = 1) => node_queue = <<>>
        /\ pc = "returned" \/ ENABLED Next

\* run_till_done has returned after its one cycle over two or more tokens.
C16_Witness ==
    /\ rules = <<>>
    /\ N >= 2
    /\ cycles = 1
    /\ pc = "returned"

(***************************************************************************)
(* C17.  For every text and every index i from 0 to the text length,       *)
(* get_line_num(i) is the number of newline characters at positions        *)
(* strictly below i, get_pos(i) is that line with col = i minus the start  *)
(* index of that line (0 for line 0, else one past the last newline below  *)
(* i), and neither call indexes newline_table out of range.                *)
(***************************************************************************)
\* The byte offset of character k of the text.
ByteOffset(t, k) == text_len(SubSeq(t, 1, k - 1))

NewlinesBelow(t, i) ==
    {ByteOffset(t, k) : k \in {j \in 1..Len(t) : t[j] = "\n" /\ ByteOffset(t, j) < i}}

LineStart(t, i) ==
    IF NewlinesBelow(t, i) = {} THEN 0
    ELSE 1 + CHOOSE m \in NewlinesBelow(t, i) : \A o \in NewlinesBelow(t, i) : o <= m

C17_LineAndColumn ==
    /\ line_num # NoResult =>
        /\ ~line_num.panic
        /\ line_num.val = Cardinality(NewlinesBelow(text, text_index))
    /\ position # NoResult =>
        /\ ~position.panic
        /\ position.line = Cardinality(NewlinesBelow(text, text_index))
        /\ position.col = text_index - LineStart(text, text_index)

\* A lookup on a table of five newlines whose binary search moved left up
\* and then answered from the middle pair, in a column past the line start.
C17_Witness ==
    /\ Len(newline_table) = 5
    /\ position # NoResult
    /\ position.line = 4
    /\ position.col = 1
    /\ text_index > newline_table[4]

(***************************************************************************)
(* C18.  CFG::from(productions) does not panic; for a non-empty input      *)
(* indexed_rules has exactly (largest left index) + 1 rows; row k is the   *)
(* subsequence of the input productions whose left index is k, in input    *)
(* order; the rows together hold as many entries as the input, each input  *)
(* production in the row of its left index.                                *)
(***************************************************************************)
LeftIndices == {productions[j].left : j \in 1..Len(productions)}

RowOf(k) ==
    LET HasLeft(p) == p.left = k
    IN  SelectSeq(productions, HasLeft)

RECURSIVE SumOfRows(_, _)
SumOfRows(rows, ks) ==
    IF ks = {} THEN 0
    ELSE LET k == CHOOSE x \in ks : TRUE
         IN  Len(rows[k]) + SumOfRows(rows, ks \ {k})

C18_RowsOfCFG ==
    cfg # NoResult =>
        /\ ~cfg.panic
        /\ productions # <<>> =>
            /\ Cardinality(DOMAIN cfg.indexed_rules) =
                   1 + CHOOSE m \in LeftIndices : \A l \in LeftIndices : l <= m
            /\ DOMAIN cfg.indexed_rules =
                   0..(CHOOSE m \in LeftIndices : \A l \in LeftIndices : l <= m)
        /\ \A k \in DOMAIN cfg.indexed_rules : cfg.indexed_rules[k] = RowOf(k)
        /\ SumOfRows(cfg.indexed_rules, DOMAIN cfg.indexed_rules) = Len(productions)
        /\ \A j \in 1..Len(productions) :
               \A k \in DOMAIN cfg.indexed_rules :
                   (\E n \in 1..Len(cfg.indexed_rules[k]) :
                        cfg.indexed_rules[k][n] = productions[j])
                       <=> k = productions[j].left

\* Two different productions of left index 2 after one of left index 0: a row
\* of two in input order, and an empty row between.
C18_Witness ==
    /\ cfg # NoResult
    /\ Len(productions) = 3
    /\ productions[1].left = 2
    /\ productions[2].left = 0
    /\ productions[3].left = 2
    /\ productions[1] # productions[3]
    /\ Len(cfg.indexed_rules[1]) = 0

(***************************************************************************)
(* One call of check_node, seen as a step: the handle it pops, and what    *)
(* the step appends to new_nodes and to the check-queue.                   *)
(***************************************************************************)
\* In the first loop of run_cycle the only step is a call of check_node.
InCheckNode == pc = "cycle" /\ node_queue # <<>>

Popped == Head(node_queue)

PushedNodes == SubSeq(new_nodes', Len(new_nodes) + 1, Len(new_nodes'))

PushedChecks == SubSeq(check_queue', Len(check_queue) + 1, Len(check_queue'))

OnlyAppends ==
    /\ Len(new_nodes') >= Len(new_nodes)
    /\ SubSeq(new_nodes', 1, Len(new_nodes)) = new_nodes
    /\ Len(check_queue') >= Len(check_queue)
    /\ SubSeq(check_queue', 1, Len(check_queue)) = check_queue

AnchoredAt(r, label) == get_rule(rules, r).base = label

ContextFree(r) ==
    /\ get_rule(rules, r).successors = <<>>
    /\ get_rule(rules, r).predecessors = <<>>

(***************************************************************************)
(* C19.  A call check_node(h) appends, for every rule anchored at the      *)
(* label of h with no successors and no predecessors, exactly one          *)
(* non-terminal with label = rule.result, the start and stop of h, that    *)
(* rule, and children = [h], and enqueues no Check for that rule.          *)
(* Scenario A ends with the terminal (a,0,1) and the non-terminal          *)
(* (S,0,1,[a-node]) and nothing else.                                      *)
(***************************************************************************)
C19_Step ==
    InCheckNode =>
        /\ OnlyAppends
        /\ \A r \in RuleHandles :
            (AnchoredAt(r, get_node(nodes, Popped).label) /\ ContextFree(r)) =>
                /\ Cardinality({k \in 1..Len(PushedNodes) :
                                    PushedNodes[k].rule = r}) = 1
                /\ \A k \in 1..Len(PushedNodes) :
                       PushedNodes[k].rule = r =>
                           /\ PushedNodes[k].kind = "NonTerminal"
                           /\ PushedNodes[k].label = get_rule(rules, r).result
                           /\ PushedNodes[k].start = get_node(nodes, Popped).start
                           /\ PushedNodes[k].stop = get_node(nodes, Popped).stop
                           /\ PushedNodes[k].children = <<Popped>>
                /\ \A k \in 1..Len(PushedChecks) : PushedChecks[k].rule_idx # r

C19_ScenarioA ==
    (rules = ScenarioA[1] /\ tokens = ScenarioA[2] /\ pc = "returned") =>
        nodes = << [label |-> "a", start |-> 0, stop |-> 1, kind |-> "Terminal",
                    token_idx |-> 0, rule |-> 0, children |-> <<>>],
                   [label |-> "S", start |-> 0, stop |-> 1, kind |-> "NonTerminal",
                    token_idx |-> 0, rule |-> 0, children |-> <<0>>] >>

C19_CheckNodeEmits == [][C19_Step]_vars /\ []C19_ScenarioA

\* check_node has just run on the second token of Scenario E: the rule without
\* context gave a node over (1,2) with the token as its child.
C19_Witness ==
    /\ rules = ScenarioE[1]
    /\ pc = "cycle"
    /\ node_queue = <<>>
    /\ Len(new_nodes) = 2
    /\ new_nodes[2].rule = 1
    /\ new_nodes[2].start = 1
    /\ new_nodes[2].children = <<1>>

(***************************************************************************)
(* C20.  A call check_node(h) enqueues, for every rule anchored at the     *)
(* label of h with at least one successor or predecessor, exactly one      *)
(* Check with base = h, leftmost = start of h, rightmost = stop of h,      *)
(* pos = 0, right_nodes = [], left_nodes = [], of stage Right if the rule  *)
(* has successors and Left otherwise; nothing is produced for a rule       *)
(* anchored at another label, and no node for a rule with context.         *)
(***************************************************************************)
C20_Step ==
    InCheckNode =>
        /\ OnlyAppends
        /\ \A r \in RuleHandles :
            (AnchoredAt(r, get_node(nodes, Popped).label) /\ ~ContextFree(r)) =>
                /\ Cardinality({k \in 1..Len(PushedChecks) :
                                    PushedChecks[k].rule_idx = r}) = 1
                /\ \A k \in 1..Len(PushedChecks) :
                       PushedChecks[k].rule_idx = r =>
                           /\ PushedChecks[k].base = Popped
                           /\ PushedChecks[k].leftmost = get_node(nodes, Popped).start
                           /\ PushedChecks[k].rightmost = get_node(nodes, Popped).stop
                           /\ PushedChecks[k].pos = 0
                           /\ PushedChecks[k].right_nodes = <<>>
                           /\ PushedChecks[k].left_nodes = <<>>
                           /\ PushedChecks[k].stage =
                                  IF get_rule(rules, r).successors # <<>>
                                      THEN "Right" ELSE "Left"
                /\ \A k \in 1..Len(PushedNodes) : PushedNodes[k].rule # r
        /\ \A k \in 1..Len(PushedChecks) :
               /\ PushedChecks[k].rule_idx \in RuleHandles
               /\ AnchoredAt(PushedChecks[k].rule_idx, get_node(nodes, Popped).label)
        /\ \A k \in 1..Len(PushedNodes) :
               /\ PushedNodes[k].rule \in RuleHandles
               /\ AnchoredAt(PushedNodes[k].rule, get_node(nodes, Popped).label)

C20_CheckNodeEnqueues == [][C20_Step]_vars

\* check_node has run on all three tokens of Scenario D: one Check, of stage
\* Right, based at the middle token, and nothing for the two other labels.
C20_Witness ==
    /\ rules = ScenarioD[1]
    /\ tokens = ScenarioD[2]
    /\ pc = "cycle"
    /\ node_queue = <<>>
    /\ new_nodes = <<>>
    /\ Len(check_queue) = 1
    /\ check_queue[1].base = 1
    /\ check_queue[1].stage = "Right"
    /\ check_queue[1].rightmost = 2

(***************************************************************************)
(* One call of check_right or check_left, seen as a step: the Check it     *)
(* dequeues, what the step appends to the check-queue, and the nodes of    *)
(* the arena that stand where the next context symbol is expected.         *)
(***************************************************************************)
InCheckRight ==
    /\ pc = "cycle"
    /\ node_queue = <<>>
    /\ check_queue # <<>>
    /\ Head(check_queue).stage = "Right"

InCheckLeft ==
    /\ pc = "cycle"
    /\ node_queue = <<>>
    /\ check_queue # <<>>
    /\ Head(check_queue).stage = "Left"

Dequeued == Head(check_queue)

ContinuedChecks == SubSeq(check_queue', Len(check_queue), Len(check_queue'))

RestOfQueueKept ==
    /\ Len(check_queue') >= Len(check_queue) - 1
    /\ SubSeq(check_queue', 1, Len(check_queue) - 1) = Tail(check_queue)
    /\ Len(new_nodes') >= Len(new_nodes)
    /\ SubSeq(new_nodes', 1, Len(new_nodes)) = new_nodes

\* Nodes that start at c.rightmost and carry the expected successor.
RightCandidates(c) ==
    {s \in Handles :
        /\ get_node(nodes, s).start = c.rightmost
        /\ get_node(nodes, s).label = get_rule(rules, c.rule_idx).successors[c.pos + 1]}

\* Nodes that end at c.leftmost and carry the expected predecessor.
LeftCandidates(c) ==
    {s \in Handles :
        /\ get_node(nodes, s).stop = c.leftmost
        /\ get_node(nodes, s).label = get_rule(rules, c.rule_idx).predecessors[c.pos + 1]}

(***************************************************************************)
(* C21.  A call check_right(c) that does not emit enqueues, for each node  *)
(* s that starts at c.rightmost with the expected label, exactly one Check *)
(* with right_nodes = c.right_nodes ++ [s] and rightmost = arena[s].stop;  *)
(* of phase Right and pos = c.pos + 1 when successors remain, of phase     *)
(* Left and pos = 0 when s matched the last successor and the rule has     *)
(* predecessors; rule, base, leftmost and left_nodes are those of c.       *)
(***************************************************************************)
C21_Step ==
    InCheckRight =>
        LET c == Dequeued
            rule == get_rule(rules, c.rule_idx)
            more == c.pos + 1 < Len(rule.successors)
            handover == c.pos + 1 = Len(rule.successors) /\ rule.predecessors # <<>>
        IN  (more \/ handover) =>
                /\ RestOfQueueKept
                /\ Len(ContinuedChecks) = Cardinality(RightCandidates(c))
                /\ \A s \in RightCandidates(c) :
                    /\ Cardinality({k \in 1..Len(ContinuedChecks) :
                           ContinuedChecks[k].right_nodes = Append(c.right_nodes, s)}) = 1
                    /\ \A k \in 1..Len(ContinuedChecks) :
                        ContinuedChecks[k].right_nodes = Append(c.right_nodes, s) =>
                            /\ ContinuedChecks[k].rightmost = get_node(nodes, s).stop
                            /\ ContinuedChecks[k].stage = IF more THEN "Right" ELSE "Left"
                            /\ ContinuedChecks[k].pos = IF more THEN c.pos + 1 ELSE 0
                            /\ ContinuedChecks[k].rule_idx = c.rule_idx
                            /\ ContinuedChecks[k].base = c.base
                            /\ ContinuedChecks[k].leftmost = c.leftmost
                            /\ ContinuedChecks[k].left_nodes = c.left_nodes

C21_CheckRightContinues == [][C21_Step]_vars

\* Scenario D after check_right matched r: the Check was handed to phase Left
\* with the match recorded and rightmost at the end of r.
C21_Witness ==
    /\ rules = ScenarioD[1]
    /\ tokens = ScenarioD[2]
    /\ pc = "cycle"
    /\ Len(check_queue) = 1
    /\ check_queue[1].stage = "Left"
    /\ check_queue[1].pos = 0
    /\ check_queue[1].right_nodes = <<2>>
    /\ check_queue[1].rightmost = 3
    /\ check_queue[1].leftmost = 1

(***************************************************************************)
(* C22.  A call check_right(c) on the last successor of a rule without     *)
(* predecessors emits, for each node s that starts at c.rightmost with the *)
(* expected label, one non-terminal with label = rule.result,              *)
(* start = c.leftmost and stop = arena[s].stop.                            *)
(***************************************************************************)
C22_Step ==
    InCheckRight =>
        LET c == Dequeued
            rule == get_rule(rules, c.rule_idx)
        IN  (c.pos + 1 = Len(rule.successors) /\ rule.predecessors = <<>>) =>
                /\ Len(PushedNodes) = Cardinality(RightCandidates(c))
                /\ \A k \in 1..Len(PushedNodes) :
                    /\ PushedNodes[k].label = rule.result
                    /\ PushedNodes[k].start = c.leftmost
                    /\ \E s \in RightCandidates(c) :
                           PushedNodes[k].stop = get_node(nodes, s).stop

C22_CheckRightEmits == [][C22_Step]_vars

(***************************************************************************)
(* C23.  A call check_left(c) takes its predecessors from the nodes that   *)
(* end at c.leftmost: it accepts exactly the nodes of the expected label   *)
(* that end there, one node or continuation each, and the node a           *)
(* continuation records as accepted has stop = c.leftmost.                 *)
(***************************************************************************)
C23_Step ==
    InCheckLeft =>
        LET c == Dequeued
        IN  /\ Len(PushedNodes) + Len(ContinuedChecks) = Cardinality(LeftCandidates(c))
            /\ \A k \in 1..Len(ContinuedChecks) :
                   /\ ContinuedChecks[k].left_nodes # <<>>
                   /\ get_node(nodes, Last(ContinuedChecks[k].left_nodes)).stop = c.leftmost

C23_CheckLeftScansLeftmost == [][C23_Step]_vars

(***************************************************************************)
(* C24.  A call check_left(c) on the last predecessor of its rule emits    *)
(* non-terminals with label = rule.result and stop = c.rightmost whose     *)
(* start is the start of the node just matched, a node that carries the    *)
(* expected predecessor label.                                             *)
(***************************************************************************)
C24_Step ==
    InCheckLeft =>
        LET c == Dequeued
            rule == get_rule(rules, c.rule_idx)
        IN  c.pos + 1 = Len(rule.predecessors) =>
                \A k \in 1..Len(PushedNodes) :
                    /\ PushedNodes[k].label = rule.result
                    /\ PushedNodes[k].stop = c.rightmost
                    /\ \E s \in Handles :
                        /\ get_node(nodes, s).label = rule.predecessors[c.pos + 1]
                        /\ PushedNodes[k].start = get_node(nodes, s).start

C24_CheckLeftEmits == [][C24_Step]_vars

(***************************************************************************)
(* C25.  A call check_left(c) with predecessors remaining after the        *)
(* expected one enqueues, for each node s of the expected label that ends  *)
(* at c.leftmost, exactly one Check with left_nodes = c.left_nodes ++ [s], *)
(* leftmost = arena[s].start, pos = c.pos + 1 and phase Left; rule, base,  *)
(* rightmost and right_nodes are those of c.                               *)
(***************************************************************************)
C25_Step ==
    InCheckLeft =>
        LET c == Dequeued
            rule == get_rule(rules, c.rule_idx)
        IN  c.pos + 1 < Len(rule.predecessors) =>
                /\ RestOfQueueKept
                /\ \A s \in LeftCandidates(c) :
                    /\ Cardinality({k \in 1..Len(ContinuedChecks) :
                           ContinuedChecks[k].left_nodes = Append(c.left_nodes, s)}) = 1
                    /\ \A k \in 1..Len(ContinuedChecks) :
                        ContinuedChecks[k].left_nodes = Append(c.left_nodes, s) =>
                            /\ ContinuedChecks[k].leftmost = get_node(nodes, s).start
                            /\ ContinuedChecks[k].pos = c.pos + 1
                            /\ ContinuedChecks[k].stage = "Left"
                            /\ ContinuedChecks[k].rule_idx = c.rule_idx
                            /\ ContinuedChecks[k].base = c.base
                            /\ ContinuedChecks[k].rightmost = c.rightmost
                            /\ ContinuedChecks[k].right_nodes = c.right_nodes

C25_CheckLeftContinues == [][C25_Step]_vars

(***************************************************************************)
(* C26.  A call check_right(c) extends or completes c only with nodes that *)
(* start at c.rightmost and carry rule.successors[c.pos]: it produces one  *)
(* node or continuation per such node, every continuation records such a   *)
(* node, and when there is none the Check is consumed and nothing is       *)
(* produced.  Scenario F never emits: its arena holds the two terminals.   *)
(***************************************************************************)
C26_Step ==
    InCheckRight =>
        LET c == Dequeued
        IN  /\ RestOfQueueKept
            /\ Len(PushedNodes) + Len(ContinuedChecks) = Cardinality(RightCandidates(c))
            /\ \A k \in 1..Len(ContinuedChecks) :
                   /\ ContinuedChecks[k].right_nodes # <<>>
                   /\ Last(ContinuedChecks[k].right_nodes) \in RightCandidates(c)
            /\ RightCandidates(c) = {} =>
                   /\ check_queue' = Tail(check_queue)
                   /\ new_nodes' = new_nodes

C26_ScenarioF ==
    (rules = ScenarioF[1] /\ tokens = ScenarioF[2]) =>
        /\ NonTerminals = {}
        /\ new_nodes = <<>>
        /\ Len(nodes) = 2

C26_CheckRightOnlyMatches == [][C26_Step]_vars /\ []C26_ScenarioF

\* Scenario F after its only Check was dequeued: consumed, nothing produced.
C26_Witness ==
    /\ rules = ScenarioF[1]
    /\ tokens = ScenarioF[2]
    /\ pc = "cycle"
    /\ node_queue = <<>>
    /\ check_queue = <<>>
    /\ new_nodes = <<>>

(***************************************************************************)
(* C27.  No node ever starts at position N, so a Check of phase Right with *)
(* rightmost = N is dropped when it is dequeued: the step pops it and      *)
(* pushes no Check and no node.                                            *)
(***************************************************************************)
C27_Step ==
    (InCheckRight /\ Dequeued.rightmost = N) =>
        /\ check_queue' = Tail(check_queue)
        /\ new_nodes' = new_nodes

C27_NothingStartsAtEnd ==
    /\ table[N].started = <<>>
    /\ \A h \in Handles : get_node(nodes, h).start < N
    /\ \A k \in 1..Len(new_nodes) : new_nodes[k].start < N

C27_RightAtEndIsDropped == [][C27_Step]_vars /\ []C27_NothingStartsAtEnd

\* The Check of a rule with a successor, based at the only token, was
\* dequeued with rightmost = N = 1 and left nothing behind.
C27_Witness ==
    /\ N = 1
    /\ Len(rules) = 1
    /\ rules[1].base = tokens[1]
    /\ rules[1].successors = <<tokens[1]>>
    /\ pc = "cycle"
    /\ node_queue = <<>>
    /\ check_queue = <<>>
    /\ new_nodes = <<>>
    /\ cycles = 0

(***************************************************************************)
(* C28.  A Check of phase Left with leftmost = 0 is dropped when it is     *)
(* dequeued: the step pops it and pushes no Check and no node; so a rule   *)
(* with predecessors produces no node of its own over a span that begins   *)
(* at position 0.                                                          *)
(***************************************************************************)
C28_Step ==
    (InCheckLeft /\ Dequeued.leftmost = 0) =>
        /\ check_queue' = Tail(check_queue)
        /\ new_nodes' = new_nodes

C28_NoneCompletesAtZero ==
    \A k \in 1..Len(new_nodes) :
        get_rule(rules, new_nodes[k].rule).predecessors # <<>> => new_nodes[k].start # 0

C28_LeftAtZeroIsDropped == [][C28_Step]_vars /\ []C28_NoneCompletesAtZero

(***************************************************************************)
(* C29.  Snapshot semantics.  While the node-queue or the check-queue of a *)
(* cycle holds work, the arena and the table do not change: the nodes      *)
(* emitted so far wait in new_nodes, in no table entry.  They enter the    *)
(* arena, the table and the node-queue in one step, taken only when both   *)
(* queues are empty.  So the table entries scanned by check_right and      *)
(* check_left, and the handles a Check has matched, name nodes of earlier  *)
(* cycles only.                                                            *)
(***************************************************************************)
C29_Step ==
    /\ (pc = "cycle" /\ (node_queue # <<>> \/ check_queue # <<>>)) =>
           /\ nodes' = nodes
           /\ table' = table
    /\ (nodes' # nodes \/ table' # table \/ Len(new_nodes') < Len(new_nodes)) =>
           /\ pc = "cycle"
           /\ node_queue = <<>>
           /\ check_queue = <<>>
           /\ nodes' = nodes \o new_nodes
           /\ node_queue' = [k \in 1..Len(new_nodes) |-> Len(nodes) + k - 1]
           /\ new_nodes' = <<>>
           /\ \A k \in 1..Len(new_nodes) :
                  /\ \E j \in 1..Len(table'[new_nodes[k].start].started) :
                         table'[new_nodes[k].start].started[j] = Len(nodes) + k - 1
                  /\ \E j \in 1..Len(table'[new_nodes[k].stop].terminated) :
                         table'[new_nodes[k].stop].terminated[j] = Len(nodes) + k - 1

C29_OnlyEarlierNodes ==
    /\ \A i \in DOMAIN table :
           /\ Range(table[i].started) \subseteq Handles
           /\ Range(table[i].terminated) \subseteq Handles
    /\ \A k \in 1..Len(check_queue) :
           /\ check_queue[k].base \in Handles
           /\ Range(check_queue[k].right_nodes) \subseteq Handles
           /\ Range(check_queue[k].left_nodes) \subseteq Handles
    /\ \A k \in 1..Len(new_nodes) : Range(new_nodes[k].children) \subseteq Handles

C29_Snapshot == [][C29_Step]_vars /\ []C29_OnlyEarlierNodes

\* Scenario Late at the end of the first drain: the B emitted in this cycle
\* starts where the Check based at the a expected a B, and the Check was
\* consumed without matching it.
C29_Witness ==
    /\ rules = ScenarioLate[1]
    /\ tokens = ScenarioLate[2]
    /\ pc = "cycle"
    /\ cycles = 0
    /\ node_queue = <<>>
    /\ check_queue = <<>>
    /\ Len(new_nodes) = 1
    /\ new_nodes[1].label = "B"
    /\ new_nodes[1].start = 1

(***************************************************************************)
(* C30.  For every Check of phase Right in the check-queue, rightmost is   *)
(* the stop of the last node of right_nodes (of the base when right_nodes  *)
(* is empty), pos counts the successors matched, and the nodes base,       *)
(* right_nodes[0], right_nodes[1], ... are pairwise adjacent: each starts  *)
(* where the one before it stops.                                          *)
(***************************************************************************)
RightChain(c) == <<c.base>> \o c.right_nodes

C30_RightmostIsTheFrontier ==
    \A k \in 1..Len(check_queue) :
        check_queue[k].stage = "Right" =>
            LET chain == RightChain(check_queue[k])
            IN  /\ check_queue[k].rightmost = get_node(nodes, Last(chain)).stop
                /\ check_queue[k].pos = Len(check_queue[k].right_nodes)
                /\ \A j \in 1..(Len(chain) - 1) :
                       get_node(nodes, chain[j]).stop = get_node(nodes, chain[j + 1]).start

\* Scenario B with its first successor matched: a Check of phase Right whose
\* chain is the a and the b, with rightmost at the end of the b.
C30_Witness ==
    /\ rules = ScenarioB[1]
    /\ tokens = ScenarioB[2]
    /\ Len(check_queue) = 1
    /\ check_queue[1].stage = "Right"
    /\ check_queue[1].right_nodes = <<1>>
    /\ check_queue[1].rightmost = 2

(***************************************************************************)
(* C31.  In every reachable state every child handle of a non-terminal is  *)
(* a handle of the arena strictly below the node's own handle (also while  *)
(* the node still waits in new_nodes for its handle), so the child         *)
(* relation on handles has no cycle.                                       *)
(***************************************************************************)
C31_ChildrenBelowParent ==
    /\ \A h \in NonTerminals :
           \A c \in Range(get_node(nodes, h).children) : c \in 0..(h - 1)
    /\ \A k \in 1..Len(new_nodes) :
           \A c \in Range(new_nodes[k].children) : c \in 0..(Len(nodes) - 1)

\* A non-terminal of the arena whose child is itself a non-terminal.
C31_Witness ==
    \E h \in NonTerminals :
        \E c \in Range(get_node(nodes, h).children) : c \in NonTerminals

(***************************************************************************)
(* C32.  In every reachable state every node of the arena, and every node  *)
(* waiting in new_nodes, has 0 <= start < stop <= N, and every terminal    *)
(* has stop = start + 1.                                                   *)
(***************************************************************************)
C32_SpansAreProper ==
    /\ \A h \in Handles :
           /\ 0 <= get_node(nodes, h).start
           /\ get_node(nodes, h).start < get_node(nodes, h).stop
           /\ get_node(nodes, h).stop <= N
    /\ \A h \in Terminals : get_node(nodes, h).stop = get_node(nodes, h).start + 1
    /\ \A k \in 1..Len(new_nodes) :
           /\ 0 <= new_nodes[k].start
           /\ new_nodes[k].start < new_nodes[k].stop
           /\ new_nodes[k].stop <= N

\* A non-terminal emitted by check_left after a Check was extended to the
\* right: it spans more than one token.
C32_Witness ==
    \E h \in NonTerminals :
        /\ get_node(nodes, h).stop > get_node(nodes, h).start + 1
        /\ get_rule(rules, get_node(nodes, h).rule).predecessors # <<>>

(***************************************************************************)
(* C33.  Append-only stores.  Every step leaves each arena entry and each  *)
(* element of each started and terminated list where it was, so a step     *)
(* can only append to them; the table keeps its N + 1 entries; the rule    *)
(* list and the rule map never change.                                     *)
(***************************************************************************)
IsPrefix(s, t) == Len(s) <= Len(t) /\ SubSeq(t, 1, Len(s)) = s

C33_Step ==
    /\ IsPrefix(nodes, nodes')
    /\ DOMAIN table' = DOMAIN table
    /\ \A i \in DOMAIN table :
           /\ IsPrefix(table[i].started, table'[i].started)
           /\ IsPrefix(table[i].terminated, table'[i].terminated)
    /\ rules' = rules
    /\ rule_map' = rule_map

C33_AppendOnly == [][C33_Step]_vars

\* After a later cycle a started list holds a token and, behind it, two
\* nodes added in different cycles.
C33_Witness ==
    /\ cycles >= 2
    /\ \E i \in DOMAIN table :
           /\ Len(table[i].started) >= 3
           /\ table[i].started[1] \in Terminals

(***************************************************************************)
(* C34.  The rule map has an entry for exactly the symbols that are the    *)
(* base of a rule; the entry of b lists exactly the handles i with         *)
(* rules[i].base = b, in strictly increasing order (so none is repeated).  *)
(***************************************************************************)
C34_RuleMap ==
    /\ DOMAIN rule_map = {get_rule(rules, i).base : i \in RuleHandles}
    /\ \A b \in DOMAIN rule_map :
           /\ Range(rule_map[b]) = {i \in RuleHandles : get_rule(rules, i).base = b}
           /\ \A j \in 1..(Len(rule_map[b]) - 1) : rule_map[b][j] < rule_map[b][j + 1]

\* A grammar with two rules of one base: the entry lists both handles.
C34_Witness ==
    \E b \in DOMAIN rule_map : Len(rule_map[b]) = 2

(***************************************************************************)
(* C35.  The variant of a rule does not influence the engine.  For every   *)
(* grammar that differs from the one in use in variant values only:        *)
(* construction gives the same rule map, arena, table and queues, and from *)
(* every reachable state each call of check_node, check_right and          *)
(* check_left pushes the same nodes and Checks (the other steps read no    *)
(* rule).  So the two runs go through the same states, step for step.      *)
(***************************************************************************)
Variants == {0, 1}

\* The grammars that differ from rs in the variant values only.
Revariants(rs) ==
    {[k \in 1..Len(rs) |-> [rs[k] EXCEPT !.variant = v[k]]] :
        v \in [1..Len(rs) -> Variants]}

C35_Construction ==
    \A rs \in Revariants(rules) :
        /\ make_rule_map(rs) = rule_map
        /\ State_new(rs, tokens).nodes = State_new(rules, tokens).nodes
        /\ State_new(rs, tokens).table = State_new(rules, tokens).table
        /\ State_new(rs, tokens).node_queue = State_new(rules, tokens).node_queue
        /\ State_new(rs, tokens).check_queue = State_new(rules, tokens).check_queue

C35_Step ==
    \A rs \in Revariants(rules) :
        /\ InCheckNode =>
               LET r == check_node(Popped, nodes, rs, make_rule_map(rs))
               IN  /\ node_queue' = Tail(node_queue)
                   /\ check_queue' = check_queue \o r.checks
                   /\ new_nodes' = new_nodes \o r.new
        /\ InCheckRight =>
               LET r == check_right(Dequeued, nodes, table, rs, discipline.scan)
               IN  /\ check_queue' = Tail(check_queue) \o r.checks
                   /\ new_nodes' = new_nodes \o r.new
        /\ InCheckLeft =>
               LET r == check_left(Dequeued, nodes, table, rs, discipline.scan)
               IN  /\ check_queue' = Tail(check_queue) \o r.checks
                   /\ new_nodes' = new_nodes \o r.new
        /\ (nodes' = nodes /\ table' = table /\ rules' = rules)
               \/ (pc = "cycle" /\ node_queue = <<>> /\ check_queue = <<>>)

C35_VariantIsOpaque == [][C35_Step]_vars /\ []C35_Construction

\* The arena holds a node made by a rule of variant 1.
C35_Witness ==
    \E h \in NonTerminals : get_rule(rules, get_node(nodes, h).rule).variant = 1

(***************************************************************************)
(* C36.  No deduplication.  The step that ends a cycle appends every node  *)
(* of new_nodes, in order, each under the handle equal to the arena length *)
(* just before its append, whether or not a structurally equal node is in  *)
(* the arena; the arena changes in no other step.  Handles are dense: the  *)
(* handles listed in the table are exactly 0..len-1.                       *)
(***************************************************************************)
C36_Step ==
    /\ (pc = "cycle" /\ node_queue = <<>> /\ check_queue = <<>>) =>
           /\ Len(nodes') = Len(nodes) + Len(new_nodes)
           /\ \A k \in 1..Len(new_nodes) :
                  get_node(nodes', Len(nodes) + k - 1) = new_nodes[k]
    /\ ~(pc = "cycle" /\ node_queue = <<>> /\ check_queue = <<>>) => nodes' = nodes

C36_DenseHandles ==
    /\ UNION {Range(table[i].started) : i \in DOMAIN table} = Handles
    /\ UNION {Range(table[i].terminated) : i \in DOMAIN table} = Handles

C36_NoDeduplication == [][C36_Step]_vars /\ []C36_DenseHandles

\* Two structurally equal non-terminals under different handles.
C36_Witness ==
    \E h1 \in NonTerminals : \E h2 \in NonTerminals :
        /\ h1 < h2
        /\ get_node(nodes, h1) = get_node(nodes, h2)

(***************************************************************************)
(* C37.  Every Check in the check-queue names a rule of the grammar, has   *)
(* pos < len(rule.successors) in phase Right and pos < len(rule.           *)
(* predecessors) in phase Left, and leftmost and rightmost in 0..N: the    *)
(* reads rule.successors[pos], rule.predecessors[pos] and                  *)
(* table[rightmost] of check_right and check_left are in range.            *)
(***************************************************************************)
C37_ChecksIndexInRange ==
    \A k \in 1..Len(check_queue) :
        LET c == check_queue[k]
        IN  /\ c.rule_idx \in RuleHandles
            /\ c.stage = "Right" => c.pos \in 0..(Len(get_rule(rules, c.rule_idx).successors) - 1)
            /\ c.stage = "Left" => c.pos \in 0..(Len(get_rule(rules, c.rule_idx).predecessors) - 1)
            /\ c.leftmost \in 0..N
            /\ c.rightmost \in 0..N
            /\ c.leftmost \in DOMAIN table
            /\ c.rightmost \in DOMAIN table

\* A Check handed from phase Right to phase Left waits with pos back at 0.
C37_Witness ==
    \E k \in 1..Len(check_queue) :
        /\ check_queue[k].stage = "Left"
        /\ check_queue[k].right_nodes # <<>>
        /\ check_queue[k].pos = 0

(***************************************************************************)
(* C38.  Every handle is pushed on the node-queue exactly once, in the     *)
(* step that adds its node to the arena; a handle that has left the queue  *)
(* never returns to it, so check_node gets each handle at most once; and   *)
(* handles are popped in increasing order: the queue always holds the last *)
(* handles of the arena, each once, in order.                              *)
(***************************************************************************)
C38_QueueIsTheTail ==
    /\ Len(node_queue) <= Len(nodes)
    /\ \A k \in 1..Len(node_queue) :
           node_queue[k] = Len(nodes) - Len(node_queue) + k - 1

C38_Step ==
    /\ \A h \in Handles : h \notin Range(node_queue) => h \notin Range(node_queue')
    /\ nodes' # nodes =>
           node_queue' = node_queue \o
               [k \in 1..(Len(nodes') - Len(nodes)) |-> Len(nodes) + k - 1]
    /\ InCheckNode =>
           /\ node_queue' = Tail(node_queue)
           /\ \A h \in Range(node_queue') : h > Popped

C38_EachHandleOnce == [][C38_Step]_vars /\ []C38_QueueIsTheTail

\* Scenario Two in its second cycle: the first of the two non-terminals added
\* by the first cycle has been popped, the second waits.
C38_Witness ==
    /\ rules = ScenarioTwo[1]
    /\ tokens = ScenarioTwo[2]
    /\ cycles = 1
    /\ pc = "cycle"
    /\ node_queue = <<3>>

(***************************************************************************)
(* C39.  Every Check in the check-queue is well formed: in phase Right it  *)
(* has matched pos successors and no predecessor; in phase Left it has     *)
(* matched all successors and pos predecessors; and its frontiers enclose  *)
(* its base node: leftmost <= base.start and rightmost >= base.stop.       *)
(***************************************************************************)
C39_Lengths ==
    \A k \in 1..Len(check_queue) :
        LET c == check_queue[k]
            rule == get_rule(rules, c.rule_idx)
        IN  /\ c.stage = "Right" =>
                   Len(c.right_nodes) = c.pos /\ c.left_nodes = <<>>
            /\ c.stage = "Left" =>
                   /\ Len(c.right_nodes) = Len(rule.successors)
                   /\ Len(c.left_nodes) = c.pos

C39_RightFrontier ==
    \A k \in 1..Len(check_queue) :
        check_queue[k].rightmost >= get_node(nodes, check_queue[k].base).stop

C39_LeftFrontier ==
    \A k \in 1..Len(check_queue) :
        check_queue[k].leftmost <= get_node(nodes, check_queue[k].base).start

C39_ChecksAreWellFormed ==
    C39_Lengths /\ C39_RightFrontier /\ C39_LeftFrontier

\* The parts of C39 that the code keeps.
C39_LengthsAndRightFrontier == C39_Lengths /\ C39_RightFrontier

(***************************************************************************)
(* C40.  In LRParser finished and failed are never both true: the          *)
(* execute_step in which an Accept action sets finished pushes no next     *)
(* state and does not set failed, so to_output returns Some tree once the  *)
(* parse is accepted; and execute_step on a finished or failed parser      *)
(* changes nothing.                                                        *)
(***************************************************************************)
C40_NeverBoth == ~(lr.finished /\ lr.failed)

C40_AcceptedGivesTree ==
    (lr_output # NoResult /\ lr.finished) => lr_output.kind = "Some"

C40_Step ==
    /\ (~lr.finished /\ lr'.finished) =>
           /\ lr'.state_stack = lr.state_stack
           /\ ~lr'.failed
           /\ ~lr_panicked'
    /\ ((lr.finished \/ lr.failed) /\ lr_output' = lr_output) => lr' = lr

C40_FinishedExcludesFailed ==
    [][C40_Step]_vars /\ []C40_NeverBoth /\ []C40_AcceptedGivesTree

\* The part of C40 that the code keeps: the early return of execute_step.
C40_SettledStepIsIdle ==
    [][((lr.finished \/ lr.failed) /\ lr_output' = lr_output) => lr' = lr]_vars

====
